---- MODULE Spec2Model ----
(***************************************************************************)
(* Authentication / authorization core of the blog server.                 *)
(*                                                                         *)
(*   server/src/utils/auth.js       token service, bearer extraction,      *)
(*                                  identity resolution                    *)
(*   server/src/middleware/auth.js  authenticate, optionalAuth, authorize  *)
(*   server/src/routes/users.js     user-management and auth routes        *)
(*   server/src/routes/posts.js     post routes                            *)
(*   server/src/utils/validation.js validators                             *)
(*   client/src/components/Form.jsx the Form component                     *)
(*                                                                         *)
(* The specifications of this module:                                      *)
(*   TokenSpec   generateToken / verifyToken applied to drawn identities,  *)
(*               lifetimes, clocks and tamperings                          *)
(*   HeaderSpec  extractTokenFromHeader applied to drawn header strings    *)
(*   Spec        the request pipeline over the identity store              *)
(*   LiveSpec    Spec with the fairness of the server's own steps          *)
(*   GateSpec    hasRole, isAdmin, isOwner, authorize, requireAdmin and    *)
(*               requireOwner applied to drawn identities and arguments    *)
(*   ValidationSpec  the validators of utils/validation.js applied to      *)
(*               drawn inputs                                              *)
(*   AccountSpec registration and user management on the seeded store      *)
(*   ReadSpec    the routes that read posts                                *)
(*   ChainSpec   authenticate and optionalAuth with a continuation that    *)
(*               may throw through next()                                  *)
(*   FormSpec    the Form component, typed into and submitted              *)
(* A specification leaves the variables of the others at their idle value. *)
(***************************************************************************)
EXTENDS Integers, Sequences, FiniteSets, TLC

VARIABLES
    \* ---- TokenSpec
    tkUser,       \* the user object handed to generateToken
    tkExpiresIn,  \* JWT_EXPIRES_IN of the process, in clock ticks
    tkNow,        \* the clock, in whole seconds (jsonwebtoken floors Date.now())
    tkToken,      \* the token under test
    tkTamper,     \* what was done to the token since it was made
    tkResult,     \* outcome of the last verifyToken call
    tkSeen,       \* per failure kind, what the caller of verifyToken observed
    \* ---- HeaderSpec
    authHeader,   \* the Authorization header value
    extracted,    \* outcome of the last extractTokenFromHeader call
    \* ---- Spec
    users,        \* the identity store: the User collection, by id
    posts,        \* the Post collection
    clock,        \* the server's clock, in whole seconds
    lifetime,     \* JWT_EXPIRES_IN of the process, in clock ticks
    wire,         \* the tokens issued so far, in the hands of clients
    req,          \* the request in flight and what became of it
    \* ---- GateSpec
    gate,         \* an authorization check: its arguments and its outcome
    \* ---- ValidationSpec
    val,          \* a validator call: its arguments and its result
    \* ---- FormSpec
    form          \* the Form component: its props, its state, its calls of onSubmit

tokenVars  == <<tkUser, tkExpiresIn, tkNow, tkToken, tkTamper, tkResult, tkSeen>>
headerVars == <<authHeader, extracted>>
sysVars    == <<users, posts, clock, lifetime, wire, req>>
gateVars   == <<gate>>
valVars    == <<val>>
formVars   == <<form>>
vars       == <<tokenVars, headerVars, sysVars, gateVars, valVars, formVars>>

(***************************************************************************)
(* Bounds of the model.                                                    *)
(***************************************************************************)
TkMaxClock    == 2 \* TokenSpec: the clock runs 0..TkMaxClock
TkMaxLifetime == 2 \* TokenSpec: token lifetimes 0..TkMaxLifetime ticks
MaxClock    == 1   \* Spec: the clock runs 0..MaxClock
MaxLifetime == 1   \* Spec: JWT_EXPIRES_IN is one of 0..MaxLifetime ticks
MaxTail     == 3   \* characters after the scheme prefix of a header
MaxTokens   == 2   \* tokens issued in one run of the server
MaxRoleList == 2   \* GateSpec: roles in an array handed to hasRole / authorize
MaxPassword == 6   \* ValidationSpec: length of the enumerated passwords
MaxUsername == 3   \* ValidationSpec: length of the enumerated usernames
MaxYear     == 2024 \* ValidationSpec: the drawn dates lie in 2023..MaxYear
MaxSanitize == 4   \* ValidationSpec: length of the enumerated sanitizeString inputs
MaxSearchShort == 2 \* ValidationSpec: length of the enumerated short search queries
MaxSubmits  == 2   \* FormSpec: submissions of the form in one run

(***************************************************************************)
(* Ids.  A user id is either a plain string or a boxed ObjectId; both have *)
(* a canonical string form, toString().                                    *)
(***************************************************************************)
IdHex == {"u1", "u2"}
ObjectId(h) == [boxed |-> TRUE, hex |-> h]
StringId(h) == [boxed |-> FALSE, hex |-> h]
toString(id) == id.hex

Roles == {"user", "admin"}

(***************************************************************************)
(* Token service                                                           *)
(***************************************************************************)
JWT_SECRET  == "your-secret-key"
OtherSecret == "another-secret"

NoClaims == [id |-> "", email |-> "", username |-> "", role |-> "",
             iat |-> 0, exp |-> 0]

\* The keyed signature of jsonwebtoken (HS256), as an ideal MAC: equal exactly
\* when key and signed data are equal.
HMAC(secret, data) == [key |-> secret, over |-> data]
NoSignature == HMAC("", NoClaims)

\* jwt.sign(payload, secret, {expiresIn}): adds iat and exp = iat + expiresIn,
\* serialises the payload (an ObjectId serialises to its string form) and signs.
jwt_sign(payload, secret, expiresIn, now) ==
    LET claims == [id       |-> toString(payload.id),
                   email    |-> payload.email,
                   username |-> payload.username,
                   role     |-> payload.role,
                   iat      |-> now,
                   exp      |-> now + expiresIn]
    IN  [kind |-> "jwt", payload |-> claims, sig |-> HMAC(secret, claims)]

\* A string that is not three dot-separated base64url parts.
MalformedToken == [kind |-> "garbage", payload |-> NoClaims, sig |-> NoSignature]

JwtFailure(name, message) ==
    [ok |-> FALSE, decoded |-> NoClaims, name |-> name, message |-> message]

jwt_verify_no_signature_check(token, secret, now) ==
    IF token.kind # "jwt"
    THEN JwtFailure("JsonWebTokenError", "jwt malformed")
    ELSE IF now >= token.payload.exp
    THEN JwtFailure("TokenExpiredError", "jwt expired")
    ELSE [ok |-> TRUE, decoded |-> token.payload, name |-> "", message |-> ""]

jwt_verify_expiry_off_by_one(token, secret, now) ==
    IF token.kind # "jwt"
    THEN JwtFailure("JsonWebTokenError", "jwt malformed")
    ELSE IF token.sig # HMAC(secret, token.payload)
    THEN JwtFailure("JsonWebTokenError", "invalid signature")
    ELSE IF now > token.payload.exp
    THEN JwtFailure("TokenExpiredError", "jwt expired")
    ELSE [ok |-> TRUE, decoded |-> token.payload, name |-> "", message |-> ""]

\* jwt.verify(token, secret): decode, then check the signature, then the expiry
\* (clockTimestamp >= exp is expired).
jwt_verify(token, secret, now) ==
    IF token.kind # "jwt"
    THEN JwtFailure("JsonWebTokenError", "jwt malformed")
    ELSE IF token.sig # HMAC(secret, token.payload)
    THEN JwtFailure("JsonWebTokenError", "invalid signature")
    ELSE IF now >= token.payload.exp
    THEN JwtFailure("TokenExpiredError", "jwt expired")
    ELSE [ok |-> TRUE, decoded |-> token.payload, name |-> "", message |-> ""]

generateToken_drops_role(user, expiresIn, now) ==
    jwt_sign([id |-> user._id, email |-> user.email,
              username |-> user.username, role |-> "user"],
             JWT_SECRET, expiresIn, now)

generateToken(user, expiresIn, now) ==
    jwt_sign([id |-> user._id, email |-> user.email,
              username |-> user.username, role |-> user.role],
             JWT_SECRET, expiresIn, now)

\* What verifyToken hands its caller: the decoded claims, or a thrown error
\* (name, message); logged is what went to the logger.
verifyToken_rethrows(token, now) ==
    LET r == jwt_verify(token, JWT_SECRET, now)
    IN  IF r.ok
        THEN [ok |-> TRUE, decoded |-> r.decoded, name |-> "", message |-> "",
              logged |-> "Token verified"]
        ELSE [ok |-> FALSE, decoded |-> NoClaims, name |-> r.name,
              message |-> r.message, logged |-> r.message]

verifyToken(token, now) ==
    LET r == jwt_verify(token, JWT_SECRET, now)
    IN  IF r.ok
        THEN [ok |-> TRUE, decoded |-> r.decoded, name |-> "", message |-> "",
              logged |-> "Token verified"]
        ELSE [ok |-> FALSE, decoded |-> NoClaims, name |-> "Error",
              message |-> "Invalid token", logged |-> r.message]

(***************************************************************************)
(* Bearer extraction                                                       *)
(***************************************************************************)
\* A JavaScript value that is null/undefined or a string (a sequence of
\* one-character strings).
Null   == [isNull |-> TRUE,  s |-> <<>>]
Str(s) == [isNull |-> FALSE, s |-> s]

BearerPrefix == <<"B", "e", "a", "r", "e", "r", " ">>

startsWith(s, prefix) ==
    /\ Len(s) >= Len(prefix)
    /\ SubSeq(s, 1, Len(prefix)) = prefix

\* String.prototype.substring(n): the characters from index n (0-based) on.
substring(s, n) == SubSeq(s, n + 1, Len(s))

\* White space as the strings of the model have it; String.prototype.trim.
isWhitespace(c) == c \in {" ", "\t"}

RECURSIVE trimStart(_)
trimStart(s) ==
    IF s # <<>> /\ isWhitespace(Head(s)) THEN trimStart(Tail(s)) ELSE s

RECURSIVE trimEnd(_)
trimEnd(s) ==
    IF s # <<>> /\ isWhitespace(s[Len(s)])
    THEN trimEnd(SubSeq(s, 1, Len(s) - 1)) ELSE s

trim(s) == trimEnd(trimStart(s))

\* !value for a null-or-string value: null, undefined and '' are falsy.
falsy(v) == v.isNull \/ v.s = <<>>

extractTokenFromHeader(h) ==
    IF falsy(h) \/ ~startsWith(h.s, BearerPrefix)
    THEN Null
    ELSE Str(substring(h.s, 7))

(***************************************************************************)
(* Identity store and post collection                                      *)
(***************************************************************************)
UserDoc(h, role, active) ==
    [_id |-> ObjectId(h), email |-> h \o "@example.com",
     username |-> "name-" \o h, role |-> role, isActive |-> active,
     password |-> "pw-" \o h]

NoDoc == [_id |-> ObjectId(""), email |-> "", username |-> "", role |-> "",
          isActive |-> FALSE, password |-> ""]

\* The answer of a query for one document: null, or the document.
Missing  == [isNull |-> TRUE, doc |-> NoDoc]
Found(d) == [isNull |-> FALSE, doc |-> d]

\* User.findById(id)
findById(store, id) ==
    IF id \in DOMAIN store /\ store[id].exists
    THEN Found(store[id].doc) ELSE Missing

\* User.findOne({ email })
findOneByEmail(store, email) ==
    IF \E h \in DOMAIN store : store[h].exists /\ store[h].doc.email = email
    THEN Found(store[CHOOSE h \in DOMAIN store :
                        store[h].exists /\ store[h].doc.email = email].doc)
    ELSE Missing

\* .select('-password'): the document without its password field.
selectWithoutPassword(answer) ==
    IF answer.isNull THEN answer
    ELSE Found([f \in DOMAIN answer.doc \ {"password"} |-> answer.doc[f]])

select_keeps_password(answer) == answer

NoPost == [id |-> "", author |-> "", status |-> ""]

MissingPost  == [isNull |-> TRUE, doc |-> NoPost]
FoundPost(p) == [isNull |-> FALSE, doc |-> p]

\* Post.findById(id)
postById(coll, id) ==
    IF \E p \in coll : p.id = id
    THEN FoundPost(CHOOSE p \in coll : p.id = id) ELSE MissingPost

\* Post.countDocuments({ author: id })
countPostsBy(coll, id) == Cardinality({p \in coll : p.author = id})

\* user.comparePassword(candidate), bcrypt taken as an ideal hash.
comparePassword(doc, candidate) == doc.password = candidate

(***************************************************************************)
(* Identity resolution: getCurrentUser                                     *)
(***************************************************************************)
\* The text of the i-th issued token, as one symbol of a header string.
TokenName(i) == "jwt-" \o ToString(i)

\* Decoding of a token string: the structure of the issued token it is the
\* text of; any other string is no JWT.
jwt_decode(text, tokens) ==
    IF \E i \in 1..Len(tokens) : text = <<TokenName(i)>>
    THEN tokens[CHOOSE i \in 1..Len(tokens) : text = <<TokenName(i)>>]
    ELSE MalformedToken

\* A store query that threw or rejected, or its answer.
Threw        == [threw |-> TRUE, user |-> Missing]
Answered(a)  == [threw |-> FALSE, user |-> a]

getCurrentUser_ignores_isActive(lookup) ==
    IF lookup.threw THEN Missing
    ELSE IF lookup.user.isNull THEN Missing
    ELSE lookup.user

\* getCurrentUser after its await: the catch returns null for a failed
\* query, and a missing or inactive user is null as well.
getCurrentUser_user(lookup) ==
    IF lookup.threw THEN Missing
    ELSE IF lookup.user.isNull \/ ~lookup.user.doc.isActive THEN Missing
    ELSE lookup.user

\* getCurrentUser up to its await: verifyToken(token); a throw is caught and
\* makes getCurrentUser return null without a query.
getCurrentUser_decoded(token, tokens, now) ==
    verifyToken(jwt_decode(token.s, tokens), now)

(***************************************************************************)
(* Requests                                                                *)
(***************************************************************************)
ME          == "GET /api/auth/me"
LOGIN       == "POST /api/auth/login"
DEACTIVATE  == "POST /api/users/:id/deactivate"
ACTIVATE    == "POST /api/users/:id/activate"
DELETE_USER == "DELETE /api/users/:id"
GET_POSTS   == "GET /api/posts"
DELETE_POST == "DELETE /api/posts/:id"
PUT_POST    == "PUT /api/posts/:id"

\* The body fields the modelled routes read; "" and "undefined" stand for a
\* field that was not sent.
NoBody == [email |-> "", password |-> "", status |-> "", username |-> "",
           role |-> "", isActive |-> "undefined"]

\* The details member of an error response: absent, or a list of messages.
NoDetails == [present |-> FALSE, list |-> <<>>]

\* A query parameter: not given, or given with a value (?status= gives '').
NoQuery  == [given |-> FALSE, value |-> ""]
Query(v) == [given |-> TRUE, value |-> v]

\* pc: "idle"   no request yet
\*     "lookup" the auth middleware awaits getCurrentUser's store query
\*     "next"   the auth middleware (if any) passed the request on; the rest of
\*              the route's chain has not run yet
\*     "done"   a response was sent
NoRequest ==
    [pc |-> "idle", route |-> "", mw |-> "", header |-> Null, param |-> "",
     query |-> NoQuery, body |-> NoBody,
     token |-> Null, decoded |-> NoClaims, verifiedAt |-> 0,
     lookup |-> Threw, found |-> Missing, user |-> Missing,
     post |-> MissingPost, wrote |-> FALSE,
     violations |-> <<>>,
     status |-> 0, error |-> "", details |-> NoDetails, issued |-> FALSE,
     sent |-> {},
     verifyCalls |-> 0, storeQueries |-> 0, nextCalls |-> 0,
     handlerRan |-> FALSE]

NewRequest(route, mw, header, param, body) ==
    [NoRequest EXCEPT !.pc = "received", !.route = route, !.mw = mw,
                      !.header = header, !.param = param, !.body = body]

\* res.status(status).json({ error })
respond(r, status, error) ==
    [r EXCEPT !.pc = "done", !.status = status, !.error = error]

\* next() of a middleware
callNext(r) == [r EXCEPT !.pc = "next", !.nextCalls = @ + 1]

(***************************************************************************)
(* Authorization policy: hasRole, isAdmin, isOwner                         *)
(***************************************************************************)
\* Array.prototype.includes
includes(array, x) == \E i \in 1..Len(array) : array[i] = x

\* A roles argument: one role, or an array of roles.
Single(role) == [isArray |-> FALSE, value |-> role, items |-> <<>>]
List(items)  == [isArray |-> TRUE,  value |-> "",   items |-> items]

\* Array.isArray(roles) ? roles : [roles]
asArray(roles) == IF roles.isArray THEN roles.items ELSE <<roles.value>>

\* user.role of a user object that has no role property.
UndefinedRole == "<undefined>"

\* An id argument: null/undefined, or a string or boxed id.
NoId       == [isNull |-> TRUE,  id |-> StringId("")]
SomeId(id) == [isNull |-> FALSE, id |-> id]

\* !value for an id argument: null, undefined and '' are falsy, an ObjectId
\* never is.
falsyId(v) == v.isNull \/ (~v.id.boxed /\ v.id.hex = "")

hasRole_case_insensitive(user, requiredRoles) ==
    IF user.isNull THEN FALSE
    ELSE includes(asArray(requiredRoles),
                  IF user.doc.role = "Admin" THEN "admin" ELSE user.doc.role)

hasRole(user, requiredRoles) ==
    IF user.isNull THEN FALSE
    ELSE includes(asArray(requiredRoles), user.doc.role)

isAdmin(user) == hasRole(user, Single("admin"))

isOwner_strict_equality(user, resourceUserId) ==
    IF user.isNull \/ falsyId(resourceUserId) THEN FALSE
    ELSE user.doc._id = resourceUserId.id

isOwner(user, resourceUserId) ==
    IF user.isNull \/ falsyId(resourceUserId) THEN FALSE
    ELSE toString(user.doc._id) = toString(resourceUserId.id)

(***************************************************************************)
(* Authentication middleware                                               *)
(***************************************************************************)
authenticate_begin_no_token_check(r, tokens, now) ==
    LET token == extractTokenFromHeader(r.header)
        v  == getCurrentUser_decoded(token, tokens, now)
        r1 == [r EXCEPT !.token = token, !.verifyCalls = @ + 1,
                        !.verifiedAt = now]
    IN  IF ~v.ok
        THEN respond(r1, 401, "Invalid or expired token")
        ELSE [r1 EXCEPT !.pc = "lookup", !.decoded = v.decoded]

\* authenticate, up to the await of the store query inside getCurrentUser.
authenticate_begin(r, tokens, now) ==
    LET token == extractTokenFromHeader(r.header)
    IN  IF falsy(token)
        THEN respond([r EXCEPT !.token = token], 401, "Access token required")
        ELSE LET v  == getCurrentUser_decoded(token, tokens, now)
                 r1 == [r EXCEPT !.token = token, !.verifyCalls = @ + 1,
                                 !.verifiedAt = now]
             IN  IF ~v.ok
                 THEN respond(r1, 401, "Invalid or expired token")
                 ELSE [r1 EXCEPT !.pc = "lookup", !.decoded = v.decoded]

authenticate_resume_always_next(r, lookup) ==
    LET user == getCurrentUser_user(lookup)
        r1   == [r EXCEPT !.lookup = lookup, !.storeQueries = @ + 1]
    IN  callNext([r1 EXCEPT !.user = IF lookup.threw THEN Missing ELSE lookup.user])

authenticate_resume_unhandled(r, lookup) ==
    LET user == getCurrentUser_user(lookup)
        r1   == [r EXCEPT !.lookup = lookup, !.storeQueries = @ + 1]
    IN  IF lookup.threw
        THEN respond(r1, 500, "Database error")
        ELSE IF user.isNull
        THEN respond(r1, 401, "Invalid or expired token")
        ELSE callNext([r1 EXCEPT !.user = user])

\* authenticate, from the answer of the store on.  getCurrentUser catches
\* whatever its query throws, so the catch of authenticate ('Authentication
\* failed') has nothing to catch on this path but what next() throws
\* (authenticate_catch).
authenticate_resume(r, lookup) ==
    LET user == getCurrentUser_user(lookup)
        r1   == [r EXCEPT !.lookup = lookup, !.storeQueries = @ + 1]
    IN  IF user.isNull
        THEN respond(r1, 401, "Invalid or expired token")
        ELSE callNext([r1 EXCEPT !.user = user])

\* optionalAuth, up to the await of the store query inside getCurrentUser.
optionalAuth_begin(r, tokens, now) ==
    LET token == extractTokenFromHeader(r.header)
    IN  IF falsy(token)
        THEN callNext([r EXCEPT !.token = token])
        ELSE LET v  == getCurrentUser_decoded(token, tokens, now)
                 r1 == [r EXCEPT !.token = token, !.verifyCalls = @ + 1,
                                 !.verifiedAt = now]
             IN  IF ~v.ok
                 THEN callNext(r1)
                 ELSE [r1 EXCEPT !.pc = "lookup", !.decoded = v.decoded]

optionalAuth_resume_rejects(r, lookup) ==
    LET user == getCurrentUser_user(lookup)
        r1   == [r EXCEPT !.lookup = lookup, !.storeQueries = @ + 1]
    IN  IF user.isNull
        THEN respond(r1, 401, "Invalid or expired token")
        ELSE callNext([r1 EXCEPT !.user = user])

\* optionalAuth, from the answer of the store on.
optionalAuth_resume(r, lookup) ==
    LET user == getCurrentUser_user(lookup)
        r1   == [r EXCEPT !.lookup = lookup, !.storeQueries = @ + 1]
    IN  IF user.isNull
        THEN callNext(r1)
        ELSE callNext([r1 EXCEPT !.user = user])

authorize_skips_role_check(roles, r) ==
    IF r.user.isNull
    THEN respond(r, 401, "Authentication required")
    ELSE callNext(r)

\* authorize(roles)(req, res, next)
authorize(roles, r) ==
    IF r.user.isNull
    THEN respond(r, 401, "Authentication required")
    ELSE IF ~includes(asArray(roles), r.user.doc.role)
    THEN respond(r, 403, "Insufficient permissions")
    ELSE callNext(r)

requireAdmin(r) == authorize(Single("admin"), r)

requireOwner_owner_only(resourceUserId, r) ==
    IF r.user.isNull
    THEN respond(r, 401, "Authentication required")
    ELSE IF falsyId(resourceUserId)
    THEN respond(r, 400, "Resource not found")
    ELSE IF toString(r.user.doc._id) # toString(resourceUserId.id)
    THEN respond(r, 403, "Access denied")
    ELSE callNext(r)

\* requireOwner(getResourceUserId)(req, res, next); resourceUserId is what
\* getResourceUserId(req) returned.
requireOwner(resourceUserId, r) ==
    IF r.user.isNull
    THEN respond(r, 401, "Authentication required")
    ELSE IF falsyId(resourceUserId)
    THEN respond(r, 400, "Resource not found")
    ELSE IF /\ toString(r.user.doc._id) # toString(resourceUserId.id)
            /\ r.user.doc.role # "admin"
    THEN respond(r, 403, "Access denied")
    ELSE callNext(r)

(***************************************************************************)
(* Initial contents of the store                                           *)
(***************************************************************************)
\* Requests are taken one at a time.  authenticate and optionalAuth read
\* shared state only in the one store query of getCurrentUser, so another
\* request running in between could only change what that query finds, and
\* every content of the store is reached between two requests.
InitialUsers ==
    [h \in IdHex |->
        [exists |-> TRUE,
         doc |-> UserDoc(h, IF h = "u1" THEN "admin" ELSE "user", TRUE)]]

PostStatuses == {"published", "draft"}
PostIds == {"p1", "p2"}

\* One published post, of the admin, and one draft, of the user.
InitialPosts ==
    { [id |-> "p1", author |-> "u1", status |-> "published"],
      [id |-> "p2", author |-> "u2", status |-> "draft"] }

SysIdle ==
    /\ users = InitialUsers
    /\ posts = InitialPosts
    /\ clock = 0
    /\ lifetime = 0
    /\ wire = <<>>
    /\ req = NoRequest

(***************************************************************************)
(* TokenSpec: the token service applied to drawn inputs                    *)
(***************************************************************************)
TkIdentities ==
    { [_id |-> id, email |-> id.hex \o "@example.com",
       username |-> "name-" \o id.hex, role |-> r] :
        id \in {ObjectId(h) : h \in IdHex} \cup {StringId(h) : h \in IdHex},
        r \in Roles }

NoResult == [called |-> FALSE, at |-> 0, ok |-> FALSE, decoded |-> NoClaims,
             name |-> "", message |-> "", logged |-> ""]

FailureKinds == {"malformed", "expired", "signature"}
NotSeen == [name |-> "", message |-> "", logged |-> ""]

\* The failure kind a token falls under at time now, from how it was made.
FailureKind(token, tamper, now) ==
    IF tamper = "malformed" THEN "malformed"
    ELSE IF tamper # "none" THEN "signature"
    ELSE IF now >= token.payload.exp THEN "expired"
    ELSE "none"

NoGate == [fn |-> "", user |-> Missing, roles |-> Single(""), resource |-> NoId,
           returned |-> FALSE, r |-> NoRequest]

GateIdle == gate = NoGate

NoCall == [fn |-> "", called |-> FALSE]

ValIdle == val = NoCall

\* No form is mounted.
NoForm == [mounted |-> FALSE]
FormIdle == form = NoForm

HeaderIdle == /\ authHeader = Null
              /\ extracted = [called |-> FALSE, token |-> Null]

TokenIdle == /\ tkUser = CHOOSE u \in TkIdentities : TRUE
             /\ tkExpiresIn = 0
             /\ tkNow = 0
             /\ tkToken = MalformedToken
             /\ tkTamper = "unmade"
             /\ tkResult = NoResult
             /\ tkSeen = [k \in FailureKinds |-> NotSeen]

TokenInit ==
    /\ tkUser \in TkIdentities
    /\ tkExpiresIn \in 0..TkMaxLifetime
    /\ tkNow \in 0..TkMaxClock
    /\ tkToken = MalformedToken
    /\ tkTamper = "unmade"
    /\ tkResult = NoResult
    /\ tkSeen = [k \in FailureKinds |-> NotSeen]
    /\ HeaderIdle
    /\ SysIdle
    /\ GateIdle
    /\ ValIdle
    /\ FormIdle

\* The server issues a token for the user (login or registration).
TkGenerate ==
    /\ tkTamper = "unmade"
    /\ tkToken' = generateToken(tkUser, tkExpiresIn, tkNow)
    /\ tkTamper' = "none"
    /\ UNCHANGED <<tkUser, tkExpiresIn, tkNow, tkResult, tkSeen, headerVars, sysVars, gateVars, valVars, formVars>>

\* Somebody else signs the same claims with a secret of their own.
TkSignWithOtherSecret ==
    /\ tkTamper = "unmade"
    /\ tkToken' = jwt_sign([id |-> tkUser._id, email |-> tkUser.email,
                            username |-> tkUser.username, role |-> tkUser.role],
                           OtherSecret, tkExpiresIn, tkNow)
    /\ tkTamper' = "secret"
    /\ UNCHANGED <<tkUser, tkExpiresIn, tkNow, tkResult, tkSeen, headerVars, sysVars, gateVars, valVars, formVars>>

\* A client presents a string that is no JWT at all ('invalid-token').
TkMalformed ==
    /\ tkTamper = "unmade"
    /\ tkToken' = MalformedToken
    /\ tkTamper' = "malformed"
    /\ UNCHANGED <<tkUser, tkExpiresIn, tkNow, tkResult, tkSeen, headerVars, sysVars, gateVars, valVars, formVars>>

\* The signed payload of an issued token is altered, the signature kept.
TkAlterPayload ==
    /\ tkTamper = "none"
    /\ \E p \in { [tkToken.payload EXCEPT !.role = r] : r \in Roles }
             \cup { [tkToken.payload EXCEPT !.id = h] : h \in IdHex }
             \cup { [tkToken.payload EXCEPT !.exp = @ + 1] } :
          /\ p # tkToken.payload
          /\ tkToken' = [tkToken EXCEPT !.payload = p]
    /\ tkTamper' = "payload"
    /\ tkResult' = NoResult
    /\ UNCHANGED <<tkUser, tkExpiresIn, tkNow, tkSeen, headerVars, sysVars, gateVars, valVars, formVars>>

\* The signature of an issued token is altered, the payload kept.
TkAlterSignature ==
    /\ tkTamper = "none"
    /\ \E s \in { HMAC(OtherSecret, tkToken.payload),
                  HMAC(JWT_SECRET, [tkToken.payload EXCEPT !.exp = @ + 1]),
                  NoSignature } :
          /\ s # tkToken.sig
          /\ tkToken' = [tkToken EXCEPT !.sig = s]
    /\ tkTamper' = "signature"
    /\ tkResult' = NoResult
    /\ UNCHANGED <<tkUser, tkExpiresIn, tkNow, tkSeen, headerVars, sysVars, gateVars, valVars, formVars>>

TkTick ==
    /\ tkNow < TkMaxClock
    /\ tkNow' = tkNow + 1
    /\ UNCHANGED <<tkUser, tkExpiresIn, tkToken, tkTamper, tkResult, tkSeen,
                   headerVars, sysVars, gateVars, valVars, formVars>>

\* A caller runs verifyToken on the token and observes the outcome.
TkVerify ==
    /\ tkTamper # "unmade"
    /\ LET r == verifyToken(tkToken, tkNow)
           k == FailureKind(tkToken, tkTamper, tkNow)
       IN  /\ tkResult' = [called |-> TRUE, at |-> tkNow, ok |-> r.ok,
                           decoded |-> r.decoded, name |-> r.name,
                           message |-> r.message, logged |-> r.logged]
           /\ tkSeen' = IF k \in FailureKinds /\ ~r.ok
                        THEN [tkSeen EXCEPT ![k] =
                                [name |-> r.name, message |-> r.message,
                                 logged |-> r.logged]]
                        ELSE tkSeen
    /\ UNCHANGED <<tkUser, tkExpiresIn, tkNow, tkToken, tkTamper, headerVars, sysVars, gateVars, valVars, formVars>>

\* The caller moves on to another token (what it observed so far is kept).
TkAnother ==
    /\ tkResult.called
    /\ tkToken' = MalformedToken
    /\ tkTamper' = "unmade"
    /\ tkResult' = NoResult
    /\ UNCHANGED <<tkUser, tkExpiresIn, tkNow, tkSeen, headerVars, sysVars, gateVars, valVars, formVars>>

TokenNext ==
    \/ TkGenerate
    \/ TkSignWithOtherSecret
    \/ TkMalformed
    \/ TkAlterPayload
    \/ TkAlterSignature
    \/ TkTick
    \/ TkVerify
    \/ TkAnother

TokenSpec == TokenInit /\ [][TokenNext]_vars

(***************************************************************************)
(* HeaderSpec: extractTokenFromHeader applied to drawn header values       *)
(***************************************************************************)
TailChars == {" ", "\t", "a"}

RECURSIVE SeqsUpTo(_, _)
SeqsUpTo(S, n) ==
    IF n = 0 THEN {<<>>}
    ELSE LET shorter == SeqsUpTo(S, n - 1)
         IN  shorter \cup {Append(t, c) : t \in shorter, c \in S}

SchemePrefixes ==
    { <<>>,
      <<"B", "e", "a", "r", "e", "r">>,
      BearerPrefix,
      <<"b", "e", "a", "r", "e", "r", " ">>,
      <<"B", "a", "s", "i", "c", " ">> }

\* null/undefined, or a scheme prefix followed by up to MaxTail characters.
HeaderValues ==
    {Null} \cup {Str(p \o t) : p \in SchemePrefixes, t \in SeqsUpTo(TailChars, MaxTail)}

HeaderInit ==
    /\ authHeader \in HeaderValues
    /\ extracted = [called |-> FALSE, token |-> Null]
    /\ TokenIdle
    /\ SysIdle
    /\ GateIdle
    /\ ValIdle
    /\ FormIdle

HdExtract ==
    /\ ~extracted.called
    /\ extracted' = [called |-> TRUE, token |-> extractTokenFromHeader(authHeader)]
    /\ UNCHANGED <<authHeader, tokenVars, sysVars, gateVars, valVars, formVars>>

\* The next request arrives with another header.
HdAnother ==
    /\ extracted.called
    /\ authHeader' \in HeaderValues
    /\ extracted' = [called |-> FALSE, token |-> Null]
    /\ UNCHANGED <<tokenVars, sysVars, gateVars, valVars, formVars>>

HeaderNext == HdExtract \/ HdAnother

HeaderSpec == HeaderInit /\ [][HeaderNext]_vars

(***************************************************************************)
(* Spec: the request pipeline over the identity store                      *)
(***************************************************************************)
Init ==
    /\ users = InitialUsers
    /\ posts = InitialPosts
    /\ clock = 0
    /\ lifetime \in 0..MaxLifetime
    /\ wire = <<>>
    /\ req = NoRequest
    /\ TokenIdle
    /\ HeaderIdle
    /\ GateIdle
    /\ ValIdle
    /\ FormIdle

\* The Authorization headers clients send: none, the bare
\* scheme, the scheme with nothing or only blanks behind it, a string that is
\* no token, and each token issued so far.
RequestHeaders ==
    { Null,
      Str(<<"B", "e", "a", "r", "e", "r">>),
      Str(BearerPrefix),
      Str(BearerPrefix \o <<" ">>),
      Str(BearerPrefix \o <<"a">>) }
    \cup { Str(BearerPrefix \o <<TokenName(i)>>) : i \in 1..Len(wire) }

AuthenticateRoutes == {ME, DEACTIVATE, ACTIVATE, DELETE_USER, DELETE_POST, PUT_POST}
OptionalAuthRoutes == {GET_POSTS}

\* The route parameter (:id) or, for GET /api/posts, the status query
\* parameter ("" when absent).
RouteParams(route) ==
    IF route \in {DEACTIVATE, ACTIVATE, DELETE_USER} THEN IdHex
    ELSE IF route \in {DELETE_POST, PUT_POST} THEN PostIds
    ELSE IF route = GET_POSTS THEN {"", "draft", "all"}
    ELSE {""}

NoneInFlight == req.pc = "idle"

\* A request arrives on a route guarded by authenticate, which runs up to
\* its await.
AuthenticateBegin ==
    /\ NoneInFlight
    /\ \E route \in AuthenticateRoutes, header \in RequestHeaders :
         \E param \in RouteParams(route) :
            req' = authenticate_begin(
                       NewRequest(route, "authenticate", header, param, NoBody),
                       wire, clock)
    /\ UNCHANGED <<users, posts, clock, lifetime, wire, tokenVars, headerVars,
                   gateVars, valVars, formVars>>

\* The store answers (or fails) the query of getCurrentUser and authenticate
\* runs to its end.
AuthenticateResume ==
    /\ req.pc = "lookup" /\ req.mw = "authenticate"
    /\ \E threw \in BOOLEAN :
         LET raw    == findById(users, req.decoded.id)
             lookup == IF threw THEN Threw
                       ELSE Answered(selectWithoutPassword(raw))
         IN  req' = authenticate_resume([req EXCEPT !.found = raw], lookup)
    /\ UNCHANGED <<users, posts, clock, lifetime, wire, tokenVars, headerVars,
                   gateVars, valVars, formVars>>

\* A request arrives on a route behind optionalAuth.
OptionalAuthBegin ==
    /\ NoneInFlight
    /\ \E route \in OptionalAuthRoutes, header \in RequestHeaders :
         \E param \in RouteParams(route) :
            req' = optionalAuth_begin(
                       NewRequest(route, "optionalAuth", header, param, NoBody),
                       wire, clock)
    /\ UNCHANGED <<users, posts, clock, lifetime, wire, tokenVars, headerVars,
                   gateVars, valVars, formVars>>

OptionalAuthResume ==
    /\ req.pc = "lookup" /\ req.mw = "optionalAuth"
    /\ \E threw \in BOOLEAN :
         LET raw    == findById(users, req.decoded.id)
             lookup == IF threw THEN Threw
                       ELSE Answered(selectWithoutPassword(raw))
         IN  req' = optionalAuth_resume([req EXCEPT !.found = raw], lookup)
    /\ UNCHANGED <<users, posts, clock, lifetime, wire, tokenVars, headerVars,
                   gateVars, valVars, formVars>>

\* GET /api/auth/me: the handler answers with req.user.
HandleMe ==
    /\ req.pc = "next" /\ req.route = ME
    /\ req' = respond([req EXCEPT !.handlerRan = TRUE], 200, "")
    /\ UNCHANGED <<users, posts, clock, lifetime, wire, tokenVars, headerVars,
                   gateVars, valVars, formVars>>

\* POST /api/users/:id/deactivate: requireAdmin, then the handler.  A failing
\* store makes asyncHandler pass the error to errorHandler (500).
HandleDeactivate ==
    /\ req.pc = "next" /\ req.route = DEACTIVATE
    /\ \E dbFails \in BOOLEAN :
         LET gated == requireAdmin(req)
             r    == [gated EXCEPT !.handlerRan = TRUE]
             id   == req.param
         IN  IF gated.pc = "done"
             THEN req' = gated /\ UNCHANGED users
             ELSE IF toString(r.user.doc._id) = id
             THEN /\ req' = respond(r, 400, "Cannot deactivate your own account")
                  /\ UNCHANGED users
             ELSE IF dbFails
             THEN req' = respond(r, 500, "Database error") /\ UNCHANGED users
             ELSE IF findById(users, id).isNull
             THEN req' = respond(r, 404, "User not found") /\ UNCHANGED users
             ELSE /\ users' = [users EXCEPT ![id].doc.isActive = FALSE]
                  /\ req' = respond(r, 200, "")
    /\ UNCHANGED <<posts, clock, lifetime, wire, tokenVars, headerVars,
                   gateVars, valVars, formVars>>

\* POST /api/users/:id/activate
HandleActivate ==
    /\ req.pc = "next" /\ req.route = ACTIVATE
    /\ \E dbFails \in BOOLEAN :
         LET gated == requireAdmin(req)
             r    == [gated EXCEPT !.handlerRan = TRUE]
             id   == req.param
         IN  IF gated.pc = "done"
             THEN req' = gated /\ UNCHANGED users
             ELSE IF dbFails
             THEN req' = respond(r, 500, "Database error") /\ UNCHANGED users
             ELSE IF findById(users, id).isNull
             THEN req' = respond(r, 404, "User not found") /\ UNCHANGED users
             ELSE /\ users' = [users EXCEPT ![id].doc.isActive = TRUE]
                  /\ req' = respond(r, 200, "")
    /\ UNCHANGED <<posts, clock, lifetime, wire, tokenVars, headerVars,
                   gateVars, valVars, formVars>>

\* DELETE /api/users/:id
HandleDeleteUser ==
    /\ req.pc = "next" /\ req.route = DELETE_USER
    /\ \E dbFails \in BOOLEAN :
         LET gated == requireAdmin(req)
             r    == [gated EXCEPT !.handlerRan = TRUE]
             id   == req.param
         IN  IF gated.pc = "done"
             THEN req' = gated /\ UNCHANGED users
             ELSE IF toString(r.user.doc._id) = id
             THEN /\ req' = respond(r, 400, "Cannot delete your own account")
                  /\ UNCHANGED users
             ELSE IF dbFails
             THEN req' = respond(r, 500, "Database error") /\ UNCHANGED users
             ELSE IF findById(users, id).isNull
             THEN req' = respond(r, 404, "User not found") /\ UNCHANGED users
             ELSE IF countPostsBy(posts, id) > 0
             THEN /\ req' = respond(r, 400, "Cannot delete user with existing posts")
                  /\ UNCHANGED users
             ELSE /\ users' = [users EXCEPT ![id] = [exists |-> FALSE, doc |-> NoDoc]]
                  /\ req' = respond(r, 200, "")
    /\ UNCHANGED <<posts, clock, lifetime, wire, tokenVars, headerVars,
                   gateVars, valVars, formVars>>

\* GET /api/posts, for a request with no query parameter but status: admins
\* get the posts of the asked status (all of them for 'all'), everybody else
\* the published ones.
HandleGetPosts ==
    /\ req.pc = "next" /\ req.route = GET_POSTS
    /\ \E dbFails \in BOOLEAN :
         LET r      == [req EXCEPT !.handlerRan = TRUE]
             status == IF req.param = "" THEN "published" ELSE req.param
             wanted == IF ~r.user.isNull /\ r.user.doc.role = "admin"
                       THEN IF status # "all" THEN {status} ELSE PostStatuses
                       ELSE {"published"}
         IN  IF dbFails
             THEN req' = respond(r, 500, "Database error")
             ELSE req' = respond([r EXCEPT !.sent =
                                    {p.id : p \in {q \in posts : q.status \in wanted}}],
                                 200, "")
    /\ UNCHANGED <<users, posts, clock, lifetime, wire, tokenVars, headerVars,
                   gateVars, valVars, formVars>>

canModifyPost_any_authenticated(post, user) == TRUE

\* The test both post routes make before they write: the requester is the
\* post's author (post.author is an ObjectId) or an admin.
canModifyPost(post, user) ==
    ~(/\ toString(ObjectId(post.author)) # toString(user._id)
      /\ user.role # "admin")

\* DELETE /api/posts/:id, behind authenticate.  A thrown AppError and a
\* failing store both end in errorHandler.
HandleDeletePost ==
    /\ req.pc = "next" /\ req.route = DELETE_POST
    /\ \E dbFails \in {"no", "findById", "findByIdAndDelete"} :
         LET post == postById(posts, req.param)
             r    == [req EXCEPT !.handlerRan = TRUE]
             r1   == [r EXCEPT !.post = post]
         IN  IF dbFails = "findById"
             THEN req' = respond(r, 500, "Database error") /\ UNCHANGED posts
             ELSE IF post.isNull
             THEN req' = respond(r1, 404, "Post not found") /\ UNCHANGED posts
             ELSE IF ~canModifyPost(post.doc, r.user.doc)
             THEN req' = respond(r1, 403, "Access denied") /\ UNCHANGED posts
             ELSE IF dbFails = "findByIdAndDelete"
             THEN req' = respond(r1, 500, "Database error") /\ UNCHANGED posts
             ELSE /\ posts' = posts \ {post.doc}
                  /\ req' = respond([r1 EXCEPT !.wrote = TRUE], 200, "")
    /\ UNCHANGED <<users, clock, lifetime, wire, tokenVars, headerVars,
                   gateVars, valVars, formVars>>

\* What keeps PUT /api/posts/:id from its update besides the post and its
\* author: a body validatePost refuses, a failing store, a category that does
\* not exist, a new title whose slug another post has.
PutObstacles ==
    {"none", "validation", "findById", "category", "slug", "findByIdAndUpdate"}

\* PUT /api/posts/:id, behind authenticate and validatePost; status is the
\* status of the body.
HandlePutPost ==
    /\ req.pc = "next" /\ req.route = PUT_POST
    /\ \E status \in PostStatuses, obstacle \in PutObstacles :
         LET post == postById(posts, req.param)
             r    == [req EXCEPT !.handlerRan = TRUE, !.body.status = status]
             r1   == [r EXCEPT !.post = post]
         IN  IF obstacle = "validation"
             THEN req' = respond(r, 400, "Validation failed") /\ UNCHANGED posts
             ELSE IF obstacle = "findById"
             THEN req' = respond(r, 500, "Database error") /\ UNCHANGED posts
             ELSE IF post.isNull
             THEN req' = respond(r1, 404, "Post not found") /\ UNCHANGED posts
             ELSE IF ~canModifyPost(post.doc, r.user.doc)
             THEN req' = respond(r1, 403, "Access denied") /\ UNCHANGED posts
             ELSE IF obstacle = "category"
             THEN req' = respond(r1, 404, "Category not found") /\ UNCHANGED posts
             ELSE IF obstacle = "slug"
             THEN /\ req' = respond(r1, 400, "A post with this title already exists")
                  /\ UNCHANGED posts
             ELSE IF obstacle = "findByIdAndUpdate"
             THEN req' = respond(r1, 500, "Database error") /\ UNCHANGED posts
             ELSE /\ posts' = (posts \ {post.doc})
                                  \cup {[post.doc EXCEPT !.status = status]}
                  /\ req' = respond([r1 EXCEPT !.wrote = TRUE], 200, "")
    /\ UNCHANGED <<users, clock, lifetime, wire, tokenVars, headerVars,
                   gateVars, valVars, formVars>>

LoginEmails    == {h \o "@example.com" : h \in IdHex} \cup {"nobody@example.com"}
LoginPasswords == {"pw-" \o h : h \in IdHex}

\* POST /api/auth/login with a well-formed email and a non-empty password
\* (validateLogin passes).  A successful login issues a token; lastLogin,
\* which nothing reads, is left out of the store.
HandleLogin ==
    /\ NoneInFlight
    /\ Len(wire) < MaxTokens
    /\ \E email \in LoginEmails, password \in LoginPasswords, dbFails \in BOOLEAN :
         LET r == [NewRequest(LOGIN, "", Null, "",
                              [NoBody EXCEPT !.email = email,
                                             !.password = password])
                     EXCEPT !.handlerRan = TRUE]
             user == findOneByEmail(users, email)
         IN  IF dbFails
             THEN req' = respond(r, 500, "Database error") /\ UNCHANGED wire
             ELSE IF user.isNull
             THEN req' = respond(r, 401, "Invalid credentials") /\ UNCHANGED wire
             ELSE IF ~user.doc.isActive
             THEN req' = respond(r, 401, "Account is deactivated") /\ UNCHANGED wire
             ELSE IF ~comparePassword(user.doc, password)
             THEN req' = respond(r, 401, "Invalid credentials") /\ UNCHANGED wire
             ELSE /\ wire' = Append(wire, generateToken(user.doc, lifetime, clock))
                  /\ req' = respond(r, 200, "")
    /\ UNCHANGED <<users, posts, clock, lifetime, tokenVars, headerVars,
                   gateVars, valVars, formVars>>

\* The response is delivered and the request is over.
Complete ==
    /\ req.pc = "done"
    /\ req' = NoRequest
    /\ UNCHANGED <<users, posts, clock, lifetime, wire, tokenVars, headerVars,
                   gateVars, valVars, formVars>>

Tick ==
    /\ clock < MaxClock
    /\ clock' = clock + 1
    /\ UNCHANGED <<users, posts, lifetime, wire, req, tokenVars, headerVars,
                   gateVars, valVars, formVars>>

Next ==
    \/ AuthenticateBegin
    \/ AuthenticateResume
    \/ OptionalAuthBegin
    \/ OptionalAuthResume
    \/ HandleMe
    \/ HandleDeactivate
    \/ HandleActivate
    \/ HandleDeleteUser
    \/ HandleGetPosts
    \/ HandleDeletePost
    \/ HandlePutPost
    \/ HandleLogin
    \/ Complete
    \/ Tick

Spec == Init /\ [][Next]_vars

\* What the server does on its own once it can: the rest of a route's chain
\* after next(), and the delivery of a response.
ServerStep ==
    \/ HandleMe
    \/ HandleDeactivate
    \/ HandleActivate
    \/ HandleDeleteUser
    \/ HandleGetPosts
    \/ HandleDeletePost
    \/ HandlePutPost
    \/ Complete

\* The continuation of getCurrentUser after its await, which runs when the
\* promise of User.findById settles.
StoreSettles == AuthenticateResume \/ OptionalAuthResume

\* The event loop runs every continuation that is ready.  Nothing bounds the
\* wait for the store: getCurrentUser awaits User.findById with no timer and
\* no cancellation, so a query that never settles leaves its continuation
\* disabled for ever; there is no fairness on StoreSettles.
LiveSpec == Spec /\ WF_vars(ServerStep)

\* The same server over a store that settles every query.
SettlingStoreSpec == LiveSpec /\ WF_vars(StoreSettles)

(***************************************************************************)
(* GateSpec: the authorization policy applied to drawn arguments           *)
(***************************************************************************)
\* Role names a route may ask for, and roles a user object may carry: the
\* two of the enumeration, values outside it, and no role at all.
GateRoleNames == {"user", "admin", "moderator"}
GateUserRoles == {"user", "admin", "moderator", "Admin", UndefinedRole}

\* Ids as ObjectId and as string; a string need not be in canonical case.
GateIds ==
    {ObjectId(h) : h \in IdHex} \cup {StringId(h) : h \in IdHex}
        \cup {StringId("U1")}

GateUser(id, role) ==
    [_id |-> id, email |-> id.hex \o "@example.com",
     username |-> "name-" \o id.hex, role |-> role, isActive |-> TRUE]

GateUsers ==
    {Missing} \cup {Found(GateUser(id, role)) : id \in GateIds, role \in GateUserRoles}

GateRolesArgs ==
    {Single(role) : role \in GateRoleNames}
        \cup {List(l) : l \in SeqsUpTo(GateRoleNames, MaxRoleList)}

GateResources ==
    {NoId, SomeId(StringId(""))} \cup {SomeId(id) : id \in GateIds}

GateInputs ==
    { [NoGate EXCEPT !.user = u, !.roles = ro, !.resource = res] :
        u \in GateUsers, ro \in GateRolesArgs, res \in GateResources }

\* The request as it reaches a gate: req.user is whatever the middleware
\* before it left there.
GateRequest(user) ==
    [NoRequest EXCEPT !.pc = "received", !.route = "gated", !.user = user]

\* Every check is made once, on arguments drawn at the start.
GateInit ==
    /\ gate \in GateInputs
    /\ TokenIdle
    /\ HeaderIdle
    /\ SysIdle
    /\ ValIdle
    /\ FormIdle

GtHasRole ==
    /\ gate.fn = ""
    /\ gate' = [gate EXCEPT !.fn = "hasRole",
                            !.returned = hasRole(gate.user, gate.roles)]
    /\ UNCHANGED <<tokenVars, headerVars, sysVars, valVars, formVars>>

GtIsAdmin ==
    /\ gate.fn = ""
    /\ gate' = [gate EXCEPT !.fn = "isAdmin", !.returned = isAdmin(gate.user)]
    /\ UNCHANGED <<tokenVars, headerVars, sysVars, valVars, formVars>>

GtIsOwner ==
    /\ gate.fn = ""
    /\ gate' = [gate EXCEPT !.fn = "isOwner",
                            !.returned = isOwner(gate.user, gate.resource)]
    /\ UNCHANGED <<tokenVars, headerVars, sysVars, valVars, formVars>>

GtAuthorize ==
    /\ gate.fn = ""
    /\ gate' = [gate EXCEPT !.fn = "authorize",
                            !.r = authorize(gate.roles, GateRequest(gate.user))]
    /\ UNCHANGED <<tokenVars, headerVars, sysVars, valVars, formVars>>

GtRequireAdmin ==
    /\ gate.fn = ""
    /\ gate' = [gate EXCEPT !.fn = "requireAdmin",
                            !.r = requireAdmin(GateRequest(gate.user))]
    /\ UNCHANGED <<tokenVars, headerVars, sysVars, valVars, formVars>>

GtRequireOwner ==
    /\ gate.fn = ""
    /\ gate' = [gate EXCEPT !.fn = "requireOwner",
                            !.r = requireOwner(gate.resource, GateRequest(gate.user))]
    /\ UNCHANGED <<tokenVars, headerVars, sysVars, valVars, formVars>>

\* The handler behind the gate runs once the gate called next().
GtHandler ==
    /\ gate.r.pc = "next"
    /\ gate' = [gate EXCEPT !.r = respond([@ EXCEPT !.handlerRan = TRUE], 200, "")]
    /\ UNCHANGED <<tokenVars, headerVars, sysVars, valVars, formVars>>

GateNext ==
    \/ GtHasRole
    \/ GtIsAdmin
    \/ GtIsOwner
    \/ GtAuthorize
    \/ GtRequireAdmin
    \/ GtRequireOwner
    \/ GtHandler

GateSpec == GateInit /\ [][GateNext]_vars

(***************************************************************************)
(* Validators (utils/validation.js)                                        *)
(***************************************************************************)
LowerCase == {"a", "b", "c", "d", "e", "f", "g", "h", "i", "j", "k", "l", "m",
              "n", "o", "p", "q", "r", "s", "t", "u", "v", "w", "x", "y", "z"}
UpperCase == {"A", "B", "C", "D", "E", "F", "G", "H", "I", "J", "K", "L", "M",
              "N", "O", "P", "Q", "R", "S", "T", "U", "V", "W", "X", "Y", "Z"}
Digit     == {"0", "1", "2", "3", "4", "5", "6", "7", "8", "9"}
Special   == {"!", "@", "#", "$", "%", "^", "&", "*"}

\* /(?=.*[class])/.test(s): some character of s is in the class.
hasCharIn(s, class) == \E i \in 1..Len(s) : s[i] \in class

\* /^[a-zA-Z0-9_]+$/.test(s)
isWord(s) ==
    /\ Len(s) > 0
    /\ \A i \in 1..Len(s) : s[i] \in LowerCase \cup UpperCase \cup Digit \cup {"_"}

\* errors.push(message) when the rule is violated.
pushIf(errors, violated, message) ==
    IF violated THEN Append(errors, message) ELSE errors

\* { isValid: errors.length === 0, errors }
result(errors) == [isValid |-> Len(errors) = 0, errors |-> errors]

validatePassword_short_circuits(password) ==
    IF falsy(password)
    THEN [isValid |-> FALSE, errors |-> <<"Password is required">>]
    ELSE IF Len(password.s) < 6
    THEN [isValid |-> FALSE,
          errors |-> <<"Password must be at least 6 characters long">>]
    ELSE LET e2 == pushIf(<<>>, ~hasCharIn(password.s, LowerCase),
                     "Password must contain at least one lowercase letter")
             e3 == pushIf(e2, ~hasCharIn(password.s, UpperCase),
                     "Password must contain at least one uppercase letter")
             e4 == pushIf(e3, ~hasCharIn(password.s, Digit),
                     "Password must contain at least one number")
             e5 == pushIf(e4, ~hasCharIn(password.s, Special),
                     "Password must contain at least one special character (!@#$%^&*)")
         IN  result(e5)

validatePassword(password) ==
    IF falsy(password)
    THEN [isValid |-> FALSE, errors |-> <<"Password is required">>]
    ELSE LET e1 == pushIf(<<>>, Len(password.s) < 6,
                     "Password must be at least 6 characters long")
             e2 == pushIf(e1, ~hasCharIn(password.s, LowerCase),
                     "Password must contain at least one lowercase letter")
             e3 == pushIf(e2, ~hasCharIn(password.s, UpperCase),
                     "Password must contain at least one uppercase letter")
             e4 == pushIf(e3, ~hasCharIn(password.s, Digit),
                     "Password must contain at least one number")
             e5 == pushIf(e4, ~hasCharIn(password.s, Special),
                     "Password must contain at least one special character (!@#$%^&*)")
         IN  result(e5)

validateUsername_stops_at_first(username) ==
    IF falsy(username)
    THEN [isValid |-> FALSE, errors |-> <<"Username is required">>]
    ELSE IF Len(username.s) < 3
    THEN [isValid |-> FALSE,
          errors |-> <<"Username must be at least 3 characters long">>]
    ELSE LET e2 == pushIf(<<>>, Len(username.s) > 30,
                     "Username must be no more than 30 characters long")
             e3 == pushIf(e2, ~isWord(username.s),
                     "Username can only contain letters, numbers, and underscores")
         IN  result(e3)

validateUsername(username) ==
    IF falsy(username)
    THEN [isValid |-> FALSE, errors |-> <<"Username is required">>]
    ELSE LET e1 == pushIf(<<>>, Len(username.s) < 3,
                     "Username must be at least 3 characters long")
             e2 == pushIf(e1, Len(username.s) > 30,
                     "Username must be no more than 30 characters long")
             e3 == pushIf(e2, ~isWord(username.s),
                     "Username can only contain letters, numbers, and underscores")
         IN  result(e3)

\* A file argument: null/undefined, or an uploaded file.
NoFile == [isNull |-> TRUE, size |-> 0, mimetype |-> ""]
File(size, mimetype) == [isNull |-> FALSE, size |-> size, mimetype |-> mimetype]

\* An options argument; a property that is not there takes its default.
Options(hasMaxSize, maxSize, hasAllowedTypes, allowedTypes) ==
    [hasMaxSize |-> hasMaxSize, maxSize |-> maxSize,
     hasAllowedTypes |-> hasAllowedTypes, allowedTypes |-> allowedTypes]

MB == 1024 * 1024
DefaultMaxSize == 5 * MB
DefaultAllowedTypes == <<"image/jpeg", "image/png", "image/gif">>

RECURSIVE join(_, _)
\* Array.prototype.join(separator)
join(array, separator) ==
    IF array = <<>> THEN ""
    ELSE IF Len(array) = 1 THEN array[1]
    ELSE array[1] \o separator \o join(Tail(array), separator)

\* The :id template literals of the messages; maxSize is a whole number of
\* megabytes in every drawn call.
fileSizeMessage(maxSize) ==
    "File size must be less than " \o ToString(maxSize \div MB) \o "MB"
fileTypeMessage(allowedTypes) ==
    "File type must be one of: " \o join(allowedTypes, ", ")

validateFileUpload(file, options) ==
    LET maxSize      == IF options.hasMaxSize THEN options.maxSize
                        ELSE DefaultMaxSize
        allowedTypes == IF options.hasAllowedTypes THEN options.allowedTypes
                        ELSE DefaultAllowedTypes
    IN  IF file.isNull
        THEN [isValid |-> FALSE, errors |-> <<"File is required">>]
        ELSE LET e1 == pushIf(<<>>, file.size > maxSize, fileSizeMessage(maxSize))
                 e2 == pushIf(e1, ~includes(allowedTypes, file.mimetype),
                              fileTypeMessage(allowedTypes))
             IN  result(e2)

\* A query parameter: absent, a number, or a string.
Undefined  == [kind |-> "undefined", n |-> 0, s |-> <<>>]
Number(n)  == [kind |-> "number", n |-> n, s |-> <<>>]
String(s)  == [kind |-> "string", n |-> 0, s |-> s]

DigitChars == <<"0", "1", "2", "3", "4", "5", "6", "7", "8", "9">>
digitValue(c) == (CHOOSE i \in 1..10 : DigitChars[i] = c) - 1

RECURSIVE decimal(_)
\* String(n) of an integer n
decimal(n) ==
    IF n < 0 THEN <<"-">> \o decimal(-n)
    ELSE IF n < 10 THEN <<DigitChars[n + 1]>>
    ELSE decimal(n \div 10) \o <<DigitChars[(n % 10) + 1]>>

NaN == [nan |-> TRUE, n |-> 0]
Finite(n) == [nan |-> FALSE, n |-> n]

RECURSIVE digitsValue(_, _)
\* The value of the longest prefix of digits of s, after the digits read so
\* far (worth acc).
digitsValue(s, acc) ==
    IF s # <<>> /\ Head(s) \in Digit
    THEN digitsValue(Tail(s), 10 * acc + digitValue(Head(s)))
    ELSE acc

\* parseInt(string): leading white space is skipped, a sign is read, then
\* digits up to the first character that is none; NaN without a digit.
parseIntOfString(s) ==
    LET t        == trimStart(s)
        negative == t # <<>> /\ Head(t) = "-"
        signed   == t # <<>> /\ Head(t) \in {"-", "+"}
        digits   == IF signed THEN Tail(t) ELSE t
    IN  IF digits = <<>> \/ Head(digits) \notin Digit THEN NaN
        ELSE IF negative THEN Finite(-digitsValue(digits, 0))
        ELSE Finite(digitsValue(digits, 0))

\* parseInt(value): a number is converted to its string first.
parseInt(v) ==
    IF v.kind = "undefined" THEN NaN
    ELSE IF v.kind = "number" THEN parseIntOfString(decimal(v.n))
    ELSE parseIntOfString(v.s)

\* parsed || fallback: NaN and 0 are falsy.
orElse(parsed, fallback) ==
    IF parsed.nan \/ parsed.n = 0 THEN fallback ELSE parsed.n

max(a, b) == IF a >= b THEN a ELSE b
min(a, b) == IF a <= b THEN a ELSE b

\* A destructuring default: taken when the property is undefined.
withDefault(v, default) == IF v.kind = "undefined" THEN default ELSE v

validatePagination(params) ==
    LET page  == withDefault(params.page, Number(1))
        limit == withDefault(params.limit, Number(10))
        validatedPage  == max(1, orElse(parseInt(page), 1))
        validatedLimit == min(100, max(1, orElse(parseInt(limit), 10)))
    IN  [page  |-> validatedPage,
         limit |-> validatedLimit,
         skip  |-> (validatedPage - 1) * validatedLimit]

\* null as an argument, next to Undefined, Number and String.
NullValue == [kind |-> "null", n |-> 0, s |-> <<>>]

\* !value: undefined, null, 0 and '' are falsy.
falsyValue(v) ==
    \/ v.kind \in {"undefined", "null"}
    \/ v.kind = "number" /\ v.n = 0
    \/ v.kind = "string" /\ v.s = <<>>

RECURSIVE replaceAll(_, _, _)
\* s.replace(/[chars]/g, by): every character of s that is in chars gives
\* way to the characters of by; what is put in is not searched again.
replaceAll(s, chars, by) ==
    IF s = <<>> THEN <<>>
    ELSE IF Len(s) = 1 THEN (IF s[1] \in chars THEN by ELSE s)
    ELSE LET half == Len(s) \div 2
         IN  replaceAll(SubSeq(s, 1, half), chars, by)
                \o replaceAll(SubSeq(s, half + 1, Len(s)), chars, by)

Amp  == <<"&", "a", "m", "p", ";">>
Quot == <<"&", "q", "u", "o", "t", ";">>
Apos == <<"&", "#", "x", "2", "7", ";">>
Sol  == <<"&", "#", "x", "2", "F", ";">>

\* sanitizeString whose '&' is replaced after the other characters.
sanitizeString_ampersand_last(input) ==
    IF input.kind # "string" THEN <<>>
    ELSE LET trimmed  == trim(input.s)
             noAngles == replaceAll(trimmed, {"<", ">"}, <<>>)
             noQuot   == replaceAll(noAngles, {"\""}, Quot)
             noApos   == replaceAll(noQuot, {"'"}, Apos)
             noSol    == replaceAll(noApos, {"/"}, Sol)
         IN  replaceAll(noSol, {"&"}, Amp)

sanitizeString(input) ==
    IF input.kind # "string" THEN <<>>
    ELSE LET trimmed  == trim(input.s)
             noAngles == replaceAll(trimmed, {"<", ">"}, <<>>)
             noAmp    == replaceAll(noAngles, {"&"}, Amp)
             noQuot   == replaceAll(noAmp, {"\""}, Quot)
             noApos   == replaceAll(noQuot, {"'"}, Apos)
         IN  replaceAll(noApos, {"/"}, Sol)

\* s.substring(from, to) with 0 <= from <= to
substringRange(s, from, to) == SubSeq(s, from + 1, min(to, Len(s)))

\* validateSearchQuery that cuts the query before sanitizing it.
validateSearchQuery_truncates_first(search) ==
    IF falsyValue(search) \/ search.kind # "string" THEN <<>>
    ELSE sanitizeString(String(substringRange(search.s, 0, 100)))

validateSearchQuery(search) ==
    IF falsyValue(search) \/ search.kind # "string" THEN <<>>
    ELSE substringRange(sanitizeString(search), 0, 100)

\* The time value of a Date, counted in days; NaN for an invalid date.
\* (getTime() counts milliseconds; only NaN and the order are used.)
dayNumber(y, m, d) == Finite((y * 12 + (m - 1)) * 31 + (d - 1))

isDigits(s) == \A i \in 1..Len(s) : s[i] \in Digit

\* new Date(string).getTime() for the strings drawn here: a date in the form
\* YYYY-MM-DD with a month 1..12 and a day 1..31 is valid, any other string
\* is an invalid date.
parseDate(s) ==
    IF /\ Len(s) = 10 /\ s[5] = "-" /\ s[8] = "-"
       /\ isDigits(SubSeq(s, 1, 4)) /\ isDigits(SubSeq(s, 6, 7))
       /\ isDigits(SubSeq(s, 9, 10))
    THEN LET y == digitsValue(SubSeq(s, 1, 4), 0)
             m == digitsValue(SubSeq(s, 6, 7), 0)
             d == digitsValue(SubSeq(s, 9, 10), 0)
         IN  IF m \in 1..12 /\ d \in 1..31 THEN dayNumber(y, m, d) ELSE NaN
    ELSE NaN

\* start > end on two Dates: false when either time value is NaN.
laterThan(start, end) == ~start.nan /\ ~end.nan /\ start.n > end.n

\* validateDateRange without the comparison of line 162.
validateDateRange_skips_order_check(startDate, endDate) ==
    IF ~falsy(startDate) /\ ~falsy(endDate)
    THEN LET start == parseDate(startDate.s)
             end   == parseDate(endDate.s)
             e1 == pushIf(<<>>, start.nan, "Invalid start date format")
             e2 == pushIf(e1, end.nan, "Invalid end date format")
         IN  result(e2)
    ELSE result(<<>>)

validateDateRange(startDate, endDate) ==
    IF ~falsy(startDate) /\ ~falsy(endDate)
    THEN LET start == parseDate(startDate.s)
             end   == parseDate(endDate.s)
             e1 == pushIf(<<>>, start.nan, "Invalid start date format")
             e2 == pushIf(e1, end.nan, "Invalid end date format")
             e3 == pushIf(e2, laterThan(start, end),
                          "Start date must be before end date")
         IN  result(e3)
    ELSE result(<<>>)

(***************************************************************************)
(* ValidationSpec: the validators applied to drawn inputs                  *)
(***************************************************************************)
NotValidated == [isValid |-> FALSE, errors |-> <<>>]

\* 'weak' and 'StrongPass123!'
Weak == <<"w", "e", "a", "k">>
StrongPass123 ==
    <<"S", "t", "r", "o", "n", "g", "P", "a", "s", "s", "1", "2", "3", "!">>

\* One character of each class the rules look for, and one of none.
PasswordChars == {"a", "A", "1", "!", " "}

Passwords ==
    {Null, Str(Weak), Str(StrongPass123)}
        \cup {Str(s) : s \in SeqsUpTo(PasswordChars, MaxPassword)}

\* 'c'.repeat(n)
repeat(c, n) == [i \in 1..n |-> c]

UsernameChars == {"a", "Z", "9", "_", "-"}

\* Short usernames, and usernames around the limit of 30 characters with
\* and without a character that is not allowed.
Usernames ==
    {Null} \cup {Str(s) : s \in SeqsUpTo(UsernameChars, MaxUsername)}
           \cup {Str(repeat("a", n) \o t) :
                    n \in 28..31, t \in SeqsUpTo({"_", "-"}, 1)}

FileSizes == {0, MB, MB + 1, DefaultMaxSize, DefaultMaxSize + 1}
MimeTypes == {"image/jpeg", "image/gif", "application/pdf"}

Files == {NoFile} \cup {File(size, type) : size \in FileSizes, type \in MimeTypes}

UploadOptions ==
    { Options(hasMaxSize, IF hasMaxSize THEN MB ELSE 0,
              hasAllowedTypes, IF hasAllowedTypes THEN types ELSE <<>>) :
        hasMaxSize \in BOOLEAN, hasAllowedTypes \in BOOLEAN,
        types \in {<<>>, <<"application/pdf">>, <<"image/gif", "application/pdf">>} }

\* The integers the drawn page and limit parameters stand for.
PageNumbers == {-5, -1, 0, 1, 2, 20, 99, 100, 101, 200, 1000}

\* An integer as a query parameter: the number, its decimal string, or a
\* decimal string with a leading zero.
NumericForms(n) ==
    {Number(n), String(decimal(n))}
        \cup (IF n >= 0 THEN {String(<<"0">> \o decimal(n))} ELSE {})

NoNumber == [given |-> FALSE, n |-> 0]
Given(n) == [given |-> TRUE, n |-> n]

\* A parameter with the integer it stands for.
PageParams ==
    {[value |-> Undefined, meant |-> NoNumber]}
        \cup UNION { {[value |-> v, meant |-> Given(n)] : v \in NumericForms(n)} :
                       n \in PageNumbers }

pad(s, width) == repeat("0", width - Len(s)) \o s

\* YYYY-MM-DD
isoDate(y, m, d) ==
    pad(decimal(y), 4) \o <<"-">> \o pad(decimal(m), 2) \o <<"-">> \o pad(decimal(d), 2)

\* undefined, '', dates, and strings that are no date.
DateArguments ==
    {Null, Str(<<>>)}
        \cup {Str(isoDate(y, m, d)) : y \in 2023..MaxYear, m \in {1, 12}, d \in {1, 31}}
        \cup {Str(isoDate(2023, 13, 1)),
              Str(<<"i", "n", "v", "a", "l", "i", "d", "-", "d", "a", "t", "e">>)}

\* The characters sanitizeString treats specially, a space and a letter.
SanitizeChars == {" ", "<", ">", "&", "\"", "'", "/", "a"}

\* '  test  '
PaddedTest ==
    <<" ", " ", "t", "e", "s", "t", " ", " ">>
\* 'test & "quote" 'apos' /slash/'
SpecialsTest ==
    <<"t", "e", "s", "t", " ", "&", " ", "\"", "q", "u", "o", "t", "e",
      "\"", " ", "'", "a", "p", "o", "s", "'", " ", "/", "s", "l", "a",
      "s", "h", "/">>
\* '<script>alert("xss")</script>'
ScriptTest ==
    <<"<", "s", "c", "r", "i", "p", "t", ">", "a", "l", "e", "r", "t", "(",
      "\"", "x", "s", "s", "\"", ")", "<", "/", "s", "c", "r", "i", "p",
      "t", ">">>

NonStrings == {Undefined, NullValue, Number(0), Number(123)}

SanitizeInputs ==
    NonStrings
        \cup {String(s) : s \in SeqsUpTo(SanitizeChars, MaxSanitize)}
        \cup {String(PaddedTest), String(SpecialsTest), String(ScriptTest)}

\* Queries around the limit of 100 characters, before and after escaping.
SearchInputs ==
    NonStrings
        \cup {String(s) : s \in SeqsUpTo(SanitizeChars, MaxSearchShort)}
        \cup {String(ScriptTest)}
        \cup {String(h \o repeat("a", n) \o t) :
                 h \in SeqsUpTo({" "}, 1), n \in {98, 99, 100, 101, 150},
                 t \in SeqsUpTo({"&", "<", "/"}, 1)}
        \cup {String(repeat("&", n)) : n \in 19..21}

ValidationInit ==
    /\ \/ \E password \in Passwords :
             val = [fn |-> "validatePassword", called |-> FALSE,
                    password |-> password, out |-> NotValidated]
       \/ \E username \in Usernames :
             val = [fn |-> "validateUsername", called |-> FALSE,
                    username |-> username, out |-> NotValidated]
       \/ \E page \in PageParams, limit \in PageParams :
             val = [fn |-> "validatePagination", called |-> FALSE,
                    params |-> [page |-> page.value, limit |-> limit.value],
                    meant |-> [page |-> page.meant, limit |-> limit.meant],
                    out |-> [page |-> 0, limit |-> 0, skip |-> 0]]
       \/ \E startDate \in DateArguments, endDate \in DateArguments :
             val = [fn |-> "validateDateRange", called |-> FALSE,
                    startDate |-> startDate, endDate |-> endDate,
                    out |-> NotValidated]
       \/ \E file \in Files, options \in UploadOptions :
             val = [fn |-> "validateFileUpload", called |-> FALSE,
                    file |-> file, options |-> options, out |-> NotValidated]
       \/ \E input \in SanitizeInputs :
             val = [fn |-> "sanitizeString", called |-> FALSE,
                    input |-> input, out |-> <<>>]
       \/ \E search \in SearchInputs :
             val = [fn |-> "validateSearchQuery", called |-> FALSE,
                    search |-> search, out |-> <<>>]
    /\ TokenIdle
    /\ HeaderIdle
    /\ SysIdle
    /\ GateIdle
    /\ FormIdle

VdPassword ==
    /\ val.fn = "validatePassword" /\ ~val.called
    /\ val' = [val EXCEPT !.called = TRUE, !.out = validatePassword(val.password)]
    /\ UNCHANGED <<tokenVars, headerVars, sysVars, gateVars, formVars>>

VdUsername ==
    /\ val.fn = "validateUsername" /\ ~val.called
    /\ val' = [val EXCEPT !.called = TRUE, !.out = validateUsername(val.username)]
    /\ UNCHANGED <<tokenVars, headerVars, sysVars, gateVars, formVars>>

VdFileUpload ==
    /\ val.fn = "validateFileUpload" /\ ~val.called
    /\ val' = [val EXCEPT !.called = TRUE,
                          !.out = validateFileUpload(val.file, val.options)]
    /\ UNCHANGED <<tokenVars, headerVars, sysVars, gateVars, formVars>>

VdPagination ==
    /\ val.fn = "validatePagination" /\ ~val.called
    /\ val' = [val EXCEPT !.called = TRUE, !.out = validatePagination(val.params)]
    /\ UNCHANGED <<tokenVars, headerVars, sysVars, gateVars, formVars>>

VdDateRange ==
    /\ val.fn = "validateDateRange" /\ ~val.called
    /\ val' = [val EXCEPT !.called = TRUE,
                          !.out = validateDateRange(val.startDate, val.endDate)]
    /\ UNCHANGED <<tokenVars, headerVars, sysVars, gateVars, formVars>>

VdSanitize ==
    /\ val.fn = "sanitizeString" /\ ~val.called
    /\ val' = [val EXCEPT !.called = TRUE, !.out = sanitizeString(val.input)]
    /\ UNCHANGED <<tokenVars, headerVars, sysVars, gateVars, formVars>>

VdSearchQuery ==
    /\ val.fn = "validateSearchQuery" /\ ~val.called
    /\ val' = [val EXCEPT !.called = TRUE, !.out = validateSearchQuery(val.search)]
    /\ UNCHANGED <<tokenVars, headerVars, sysVars, gateVars, formVars>>

ValidationNext ==
    \/ VdSanitize
    \/ VdSearchQuery
    \/ VdPagination
    \/ VdDateRange
    \/ VdPassword
    \/ VdUsername
    \/ VdFileUpload

ValidationSpec == ValidationInit /\ [][ValidationNext]_vars

(***************************************************************************)
(* Registration and user management (routes/users.js), errorHandler        *)
(***************************************************************************)
REGISTER == "POST /api/auth/register"
PUT_USER == "PUT /api/users/:id"
PROFILE  == "PUT /api/auth/profile"

KnownStrings ==
    {"admin", "user1", "newuser", " newuser",
     "ab", "new-user", "admin@example.com", "user1@example.com",
     "newuser@example.com", "NewUser@Example.com", "invalid-email", "@invalid-email",
     "NewPass123!", "weak", ""}

\* The characters of a string the model names.
spell(a) ==
    IF a = "admin" THEN <<"a", "d", "m", "i", "n">>
    ELSE IF a = "user1" THEN <<"u", "s", "e", "r", "1">>
    ELSE IF a = "newuser" THEN <<"n", "e", "w", "u", "s", "e", "r">>
    ELSE IF a = " newuser" THEN <<" ", "n", "e", "w", "u", "s", "e", "r">>
    ELSE IF a = "ab" THEN <<"a", "b">>
    ELSE IF a = "new-user" THEN <<"n", "e", "w", "-", "u", "s", "e", "r">>
    ELSE IF a = "admin@example.com" THEN
        <<"a", "d", "m", "i", "n", "@", "e", "x", "a", "m", "p", "l", "e",
          ".", "c", "o", "m">>
    ELSE IF a = "user1@example.com" THEN
        <<"u", "s", "e", "r", "1", "@", "e", "x", "a", "m", "p", "l", "e",
          ".", "c", "o", "m">>
    ELSE IF a = "newuser@example.com" THEN
        <<"n", "e", "w", "u", "s", "e", "r", "@", "e", "x", "a", "m", "p",
          "l", "e", ".", "c", "o", "m">>
    ELSE IF a = "NewUser@Example.com" THEN
        <<"N", "e", "w", "U", "s", "e", "r", "@", "E", "x", "a", "m", "p",
          "l", "e", ".", "c", "o", "m">>
    ELSE IF a = "invalid-email" THEN
        <<"i", "n", "v", "a", "l", "i", "d", "-", "e", "m", "a", "i", "l">>
    ELSE IF a = "@invalid-email" THEN
        <<"@", "i", "n", "v", "a", "l", "i", "d", "-", "e", "m", "a", "i",
          "l">>
    ELSE IF a = "NewPass123!" THEN
        <<"N", "e", "w", "P", "a", "s", "s", "1", "2", "3", "!">>
    ELSE IF a = "weak" THEN <<"w", "e", "a", "k">>
    ELSE IF a = "" THEN <<>>
    ELSE <<>>

\* The string whose characters are chars.
unspell(chars) == CHOOSE a \in KnownStrings : spell(a) = chars

UpperLetters ==
    <<"A", "B", "C", "D", "E", "F", "G", "H", "I", "J", "K", "L", "M",
      "N", "O", "P", "Q", "R", "S", "T", "U", "V", "W", "X", "Y", "Z">>
LowerLetters ==
    <<"a", "b", "c", "d", "e", "f", "g", "h", "i", "j", "k", "l", "m",
      "n", "o", "p", "q", "r", "s", "t", "u", "v", "w", "x", "y", "z">>

\* s.toLowerCase()
toLowerCase(s) ==
    [i \in 1..Len(s) |->
        IF s[i] \in UpperCase
        THEN LowerLetters[CHOOSE k \in 1..26 : UpperLetters[k] = s[i]]
        ELSE s[i]]

\* The positions of '@' in s.
atSigns(s) == {i \in 1..Len(s) : s[i] = "@"}

\* isEmail() for the strings drawn here: one '@' with something before it
\* and, behind it, a domain with a dot inside.
isEmail(s) ==
    /\ Cardinality(atSigns(s)) = 1
    /\ LET at == CHOOSE i \in atSigns(s) : TRUE
       IN  /\ at > 1
           /\ \E i \in (at + 2)..(Len(s) - 1) : s[i] = "."

\* normalizeEmail() for a domain with no rule of its own: the address is
\* split at its last '@' and both parts are put in lower case.
normalizeEmail(s) ==
    LET at == IF atSigns(s) = {} THEN 0
              ELSE CHOOSE i \in atSigns(s) : \A j \in atSigns(s) : j <= i
    IN  toLowerCase(SubSeq(s, 1, at - 1)) \o <<"@">>
            \o toLowerCase(SubSeq(s, at + 1, Len(s)))

\* validateRegistration followed by validationResult(req): the sanitized
\* body and the messages of the validators that failed, in chain order.
validateRegistration(body) ==
    LET username == trim(spell(body.username))
        email    == spell(body.email)
        password == spell(body.password)
        e1 == pushIf(<<>>, Len(username) < 3 \/ Len(username) > 30,
                     "Username must be between 3 and 30 characters")
        e2 == pushIf(e1, ~isWord(username),
                     "Username can only contain letters, numbers, and underscores")
        e3 == pushIf(e2, ~isEmail(email), "Please provide a valid email")
        e4 == pushIf(e3, Len(password) < 6,
                     "Password must be at least 6 characters long")
        e5 == pushIf(e4, ~(/\ hasCharIn(password, LowerCase)
                           /\ hasCharIn(password, UpperCase)
                           /\ hasCharIn(password, Digit)),
                     "Password must contain at least one lowercase letter, one uppercase letter, and one number")
    IN  [body   |-> [body EXCEPT !.username = unspell(username),
                                 !.email = unspell(normalizeEmail(email))],
         errors |-> e5]

\* new AppError(message, status)
AppError(message, status) ==
    [name |-> "Error", message |-> message, status |-> status,
     isOperational |-> TRUE, details |-> <<>>]

\* What a failing store query throws: no status, not operational.
StoreError ==
    [name |-> "MongoError", message |-> "Database error", status |-> 0,
     isOperational |-> FALSE, details |-> <<>>]

\* errorHandler: the status and body of the response to an error.  Only a
\* Mongoose ValidationError gets a details member, with the messages of
\* err.errors.
errorHandler(err) ==
    LET status == IF err.name = "ValidationError" THEN 400
                  ELSE IF err.status # 0 THEN err.status
                  ELSE IF err.isOperational THEN 400
                  ELSE 500
        message == IF err.name = "ValidationError" THEN "Validation Error"
                   ELSE IF err.message # "" THEN err.message
                   ELSE "Internal Server Error"
    IN  [status  |-> status,
         error   |-> message,
         details |-> IF err.name = "ValidationError"
                     THEN [present |-> TRUE, list |-> err.details]
                     ELSE NoDetails]

\* throw err inside asyncHandler: errorHandler answers.
fail(r, err) ==
    LET e == errorHandler(err)
    IN  [r EXCEPT !.pc = "done", !.status = e.status, !.error = e.error,
                  !.details = e.details]

\* The query with the username condition left out of the $or.
findOneByEmailOrUsername_email_only(store, email, username, except) ==
    LET hits == {h \in DOMAIN store :
                    /\ store[h].exists
                    /\ h # except
                    /\ email # "" /\ store[h].doc.email = email}
    IN  IF hits = {} THEN Missing ELSE Found(store[CHOOSE h \in hits : TRUE].doc)

\* User.findOne({ $or: [{ email }, { username }], _id: { $ne: except } });
\* an empty email or username is left out of the $or, an empty except means
\* no _id condition.
findOneByEmailOrUsername(store, email, username, except) ==
    LET hits == {h \in DOMAIN store :
                    /\ store[h].exists
                    /\ h # except
                    /\ \/ email # "" /\ store[h].doc.email = email
                       \/ username # "" /\ store[h].doc.username = username}
    IN  IF hits = {} THEN Missing ELSE Found(store[CHOOSE h \in hits : TRUE].doc)

\* A user of the seeded store.
SeedUser(h, username, role) ==
    [_id |-> ObjectId(h), email |-> username \o "@example.com",
     username |-> username, role |-> role, isActive |-> TRUE,
     password |-> "pw-" \o h]

\* The id the store gives the next new document.
NewId == "u3"

\* new User(req.body): a role sent in the body is stored.
NewUser_from_whole_body(h, body) ==
    [_id |-> ObjectId(h), email |-> body.email, username |-> body.username,
     role |-> IF body.role # "" THEN body.role ELSE "user",
     isActive |-> TRUE, password |-> body.password]

\* new User({ username, email, password }): role and isActive are not
\* taken from the request; they get the defaults of the schema.
NewUser(h, body) ==
    [_id |-> ObjectId(h), email |-> body.email, username |-> body.username,
     role |-> "user", isActive |-> TRUE, password |-> body.password]

\* validateUserUpdate (PUT /api/users/:id) and the chain of PUT
\* /api/auth/profile, followed by validationResult(req): a field that was
\* not sent is skipped (optional()); role and isActive are checked only
\* where the chain names them.
validateUserUpdate(body, withRoleAndActive) ==
    LET username == trim(spell(body.username))
        email    == spell(body.email)
        e1 == pushIf(<<>>, body.username # ""
                              /\ (Len(username) < 3 \/ Len(username) > 30),
                     "Username must be between 3 and 30 characters")
        e2 == pushIf(e1, body.email # "" /\ ~isEmail(email),
                     "Please provide a valid email")
        e3 == pushIf(e2, withRoleAndActive /\ body.role \notin {"", "user", "admin"},
                     "Role must be user or admin")
        e4 == pushIf(e3, withRoleAndActive
                              /\ body.isActive \notin {"undefined", "true", "false"},
                     "isActive must be a boolean")
    IN  [body   |-> [body EXCEPT
                       !.username = IF @ = "" THEN "" ELSE unspell(username),
                       !.email = IF @ = "" THEN ""
                                 ELSE unspell(normalizeEmail(email))],
         errors |-> e4]

\* The updates object of PUT /api/users/:id applied to a document: username
\* and email when truthy, role and isActive only for an admin requester.
applyUserUpdates(doc, body, requester) ==
    LET d1 == IF body.username # "" THEN [doc EXCEPT !.username = body.username]
              ELSE doc
        d2 == IF body.email # "" THEN [d1 EXCEPT !.email = body.email] ELSE d1
        d3 == IF body.role # "" /\ requester.role = "admin"
              THEN [d2 EXCEPT !.role = body.role] ELSE d2
    IN  IF body.isActive # "undefined" /\ requester.role = "admin"
        THEN [d3 EXCEPT !.isActive = (body.isActive = "true")] ELSE d3

\* The updates object of PUT /api/auth/profile: username and email only.
applyProfileUpdates(doc, body) ==
    LET d1 == IF body.username # "" THEN [doc EXCEPT !.username = body.username]
              ELSE doc
    IN  IF body.email # "" THEN [d1 EXCEPT !.email = body.email] ELSE d1

(***************************************************************************)
(* AccountSpec: registration and user management over the seeded store     *)
(***************************************************************************)
\* The seeded admin and user, and room for one registered user.
SeedUsers ==
    [h \in {"u1", "u2", NewId} |->
        IF h = "u1" THEN [exists |-> TRUE, doc |-> SeedUser(h, "admin", "admin")]
        ELSE IF h = "u2" THEN [exists |-> TRUE, doc |-> SeedUser(h, "user1", "user")]
        ELSE [exists |-> FALSE, doc |-> NoDoc]]

\* Both seeded users have logged in: the token of each is with its client,
\* and stays valid (the clock stands still in this specification).
AccountInit ==
    /\ users = SeedUsers
    /\ posts = InitialPosts
    /\ clock = 0
    /\ lifetime = 1
    /\ wire = << generateToken(SeedUsers["u1"].doc, 1, 0),
                 generateToken(SeedUsers["u2"].doc, 1, 0) >>
    /\ req = NoRequest
    /\ TokenIdle
    /\ HeaderIdle
    /\ GateIdle
    /\ ValIdle
    /\ FormIdle

AccountRoutes == {PUT_USER, PROFILE, DEACTIVATE}

\* No header, or the token of a client.
AccountHeaders ==
    {Null} \cup { Str(BearerPrefix \o <<TokenName(i)>>) : i \in 1..Len(wire) }

\* A request arrives on a user-management route; authenticate runs up to
\* its await.
AcAuthenticateBegin ==
    /\ NoneInFlight
    /\ \E route \in AccountRoutes, header \in AccountHeaders :
         \E param \in (IF route = PROFILE THEN {""} ELSE DOMAIN users) :
            req' = authenticate_begin(
                       NewRequest(route, "authenticate", header, param, NoBody),
                       wire, clock)
    /\ UNCHANGED <<users, posts, clock, lifetime, wire, tokenVars, headerVars,
                   gateVars, valVars, formVars>>

RegisterUsernames == {"admin", "newuser", " newuser", "ab", "new-user"}
RegisterEmails ==
    {"admin@example.com", "newuser@example.com", "NewUser@Example.com",
     "invalid-email"}
RegisterPasswords == {"NewPass123!", "weak"}

\* POST /api/auth/register: validateRegistration, then the handler.  The
\* body may carry a role and an isActive member, which nothing reads.
HandleRegister ==
    /\ NoneInFlight
    /\ \E username \in RegisterUsernames, email \in RegisterEmails,
          password \in RegisterPasswords, role \in {"", "admin"},
          dbFails \in {"no", "findOne", "save"} :
         LET body == [NoBody EXCEPT !.username = username, !.email = email,
                                    !.password = password, !.role = role]
             checked  == validateRegistration(body)
             r        == [NewRequest(REGISTER, "", Null, "", body)
                            EXCEPT !.handlerRan = TRUE,
                                   !.violations = checked.errors]
             existing == findOneByEmailOrUsername(
                             users, checked.body.email, checked.body.username, "")
             user     == NewUser(NewId, checked.body)
         IN  IF checked.errors # <<>>
             THEN /\ req' = fail(r, AppError("Validation failed", 400))
                  /\ UNCHANGED <<users, wire>>
             ELSE IF dbFails = "findOne"
             THEN req' = fail(r, StoreError) /\ UNCHANGED <<users, wire>>
             ELSE IF ~existing.isNull
             THEN /\ req' = fail(r, AppError("User already exists", 400))
                  /\ UNCHANGED <<users, wire>>
             ELSE IF dbFails = "save"
             THEN req' = fail(r, StoreError) /\ UNCHANGED <<users, wire>>
             ELSE /\ ~users[NewId].exists
                  /\ users' = [users EXCEPT ![NewId] = [exists |-> TRUE, doc |-> user]]
                  /\ wire' = Append(wire, generateToken(user, lifetime, clock))
                  /\ req' = [r EXCEPT !.pc = "done", !.status = 201,
                                      !.issued = TRUE, !.wrote = TRUE]
    /\ UNCHANGED <<posts, clock, lifetime, tokenVars, headerVars, gateVars, valVars, formVars>>

UpdateUsernames == {"", "admin", "user1", "ab"}
UpdateEmails    == {"", "user1@example.com", "invalid-email"}
UpdateRoles     == {"", "user", "admin", "root"}
UpdateActives   == {"undefined", "true", "false"}

\* PUT /api/users/:id, behind authenticate and validateUserUpdate.
HandlePutUser ==
    /\ req.pc = "next" /\ req.route = PUT_USER
    /\ \E username \in UpdateUsernames, email \in UpdateEmails,
          role \in UpdateRoles, isActive \in UpdateActives,
          dbFails \in {"no", "findById", "findOne", "findByIdAndUpdate"} :
         LET body == [NoBody EXCEPT !.username = username, !.email = email,
                                    !.role = role, !.isActive = isActive]
             checked == validateUserUpdate(body, TRUE)
             b       == checked.body
             r       == [req EXCEPT !.handlerRan = TRUE]
             id      == req.param
             me      == r.user.doc
             user    == findById(users, id)
             existing == findOneByEmailOrUsername(users, b.email, b.username, id)
         IN  IF checked.errors # <<>>
             THEN /\ req' = fail([r EXCEPT !.violations = checked.errors],
                                 AppError("Validation failed", 400))
                  /\ UNCHANGED users
             ELSE IF toString(me._id) # id /\ me.role # "admin"
             THEN req' = fail(r, AppError("Access denied", 403)) /\ UNCHANGED users
             ELSE IF me.role # "admin" /\ (b.role # "" \/ b.isActive # "undefined")
             THEN req' = fail(r, AppError("Access denied", 403)) /\ UNCHANGED users
             ELSE IF dbFails = "findById"
             THEN req' = fail(r, StoreError) /\ UNCHANGED users
             ELSE IF user.isNull
             THEN req' = fail(r, AppError("User not found", 404)) /\ UNCHANGED users
             ELSE IF (b.username # "" \/ b.email # "") /\ dbFails = "findOne"
             THEN req' = fail(r, StoreError) /\ UNCHANGED users
             ELSE IF (b.username # "" \/ b.email # "") /\ ~existing.isNull
             THEN /\ req' = fail(r, AppError("Username or email already exists", 400))
                  /\ UNCHANGED users
             ELSE IF dbFails = "findByIdAndUpdate"
             THEN req' = fail(r, StoreError) /\ UNCHANGED users
             ELSE /\ users' = [users EXCEPT
                                 ![id].doc = applyUserUpdates(user.doc, b, me)]
                  /\ req' = respond([r EXCEPT !.wrote = TRUE], 200, "")
    /\ UNCHANGED <<posts, clock, lifetime, wire, tokenVars, headerVars,
                   gateVars, valVars, formVars>>

\* PUT /api/auth/profile, behind authenticate and its validation chain.  The
\* body may carry a role and an isActive member, which nothing reads.
HandleProfile ==
    /\ req.pc = "next" /\ req.route = PROFILE
    /\ \E username \in UpdateUsernames, email \in UpdateEmails,
          role \in {"", "admin"}, isActive \in {"undefined", "false"},
          dbFails \in {"no", "findOne", "findByIdAndUpdate"} :
         LET body == [NoBody EXCEPT !.username = username, !.email = email,
                                    !.role = role, !.isActive = isActive]
             checked == validateUserUpdate(body, FALSE)
             b       == checked.body
             r       == [req EXCEPT !.handlerRan = TRUE]
             me      == r.user.doc
             id      == toString(me._id)
             existing == findOneByEmailOrUsername(users, b.email, b.username, id)
         IN  IF checked.errors # <<>>
             THEN /\ req' = fail([r EXCEPT !.violations = checked.errors],
                                 AppError("Validation failed", 400))
                  /\ UNCHANGED users
             ELSE IF (b.username # "" \/ b.email # "") /\ dbFails = "findOne"
             THEN req' = fail(r, StoreError) /\ UNCHANGED users
             ELSE IF (b.username # "" \/ b.email # "") /\ ~existing.isNull
             THEN /\ req' = fail(r, AppError("Username or email already exists", 400))
                  /\ UNCHANGED users
             ELSE IF dbFails = "findByIdAndUpdate" \/ ~users[id].exists
             THEN req' = fail(r, StoreError) /\ UNCHANGED users
             ELSE /\ users' = [users EXCEPT
                                 ![id].doc = applyProfileUpdates(users[id].doc, b)]
                  /\ req' = respond([r EXCEPT !.wrote = TRUE], 200, "")
    /\ UNCHANGED <<posts, clock, lifetime, wire, tokenVars, headerVars,
                   gateVars, valVars, formVars>>

AccountNext ==
    \/ AcAuthenticateBegin
    \/ AuthenticateResume
    \/ HandleRegister
    \/ HandlePutUser
    \/ HandleProfile
    \/ HandleDeactivate
    \/ Complete

AccountSpec == AccountInit /\ [][AccountNext]_vars

(***************************************************************************)
(* ReadSpec: the routes that read posts, on a seeded store                 *)
(***************************************************************************)
GET_POST       == "GET /api/posts/:id"
GET_POST_SLUG  == "GET /api/posts/slug/:slug"
GET_USER_POSTS == "GET /api/users/:id/posts"

\* The slug of a post (the schema derives it from the title; one per post).
slugOf(id) == "slug-" \o id

\* Post.findOne({ slug })
postBySlug(coll, slug) ==
    IF \E p \in coll : slugOf(p.id) = slug
    THEN FoundPost(CHOOSE p \in coll : slugOf(p.id) = slug) ELSE MissingPost

\* Post.find({ author: id }) with the status filter of GET
\* /api/users/:id/posts: status defaults to 'published' when the query has
\* none, and an empty status or 'all' sets no filter.
userPostsQuery(coll, id, status) ==
    LET s == IF status.given THEN status.value ELSE "published"
    IN  {p \in coll : /\ p.author = id
                      /\ (s # "" /\ s # "all") => p.status = s}

\* The posts of the store: each of the two in either status.
ReadPosts ==
    { { [id |-> "p1", author |-> "u1", status |-> s1],
        [id |-> "p2", author |-> "u2", status |-> s2] } :
        s1 \in PostStatuses, s2 \in PostStatuses }

ReadInit ==
    /\ users = SeedUsers
    /\ posts \in ReadPosts
    /\ clock = 0
    /\ lifetime = 1
    /\ wire = << generateToken(SeedUsers["u1"].doc, 1, 0),
                 generateToken(SeedUsers["u2"].doc, 1, 0) >>
    /\ req = NoRequest
    /\ TokenIdle
    /\ HeaderIdle
    /\ GateIdle
    /\ ValIdle
    /\ FormIdle

StatusQueries ==
    {NoQuery} \cup {Query(s) : s \in {"", "all", "draft", "published"}}

\* The route parameter (:id, :slug) of a read route and, for GET
\* /api/posts, the status query parameter.
ReadParams(route) ==
    IF route = GET_POST THEN PostIds \cup {"p9"}
    ELSE IF route = GET_POST_SLUG THEN {slugOf(id) : id \in PostIds} \cup {"no-such-slug"}
    ELSE IF route = GET_USER_POSTS THEN DOMAIN SeedUsers
    ELSE {"", "draft", "all"}

\* A request arrives on a read route behind optionalAuth.
RdOptionalAuthBegin ==
    /\ NoneInFlight
    /\ \E route \in {GET_POSTS, GET_POST, GET_POST_SLUG}, header \in AccountHeaders :
         \E param \in ReadParams(route) :
            req' = optionalAuth_begin(
                       NewRequest(route, "optionalAuth", header, param, NoBody),
                       wire, clock)
    /\ UNCHANGED <<users, posts, clock, lifetime, wire, tokenVars, headerVars,
                   gateVars, valVars, formVars>>

\* A request arrives on GET /api/users/:id/posts, which has no middleware
\* before its handler: whatever Authorization header it carries is not read.
RdPublicBegin ==
    /\ NoneInFlight
    /\ \E header \in AccountHeaders, param \in ReadParams(GET_USER_POSTS),
          status \in StatusQueries :
         req' = [NewRequest(GET_USER_POSTS, "", header, param, NoBody)
                   EXCEPT !.pc = "next", !.query = status]
    /\ UNCHANGED <<users, posts, clock, lifetime, wire, tokenVars, headerVars,
                   gateVars, valVars, formVars>>

\* What GET /api/posts/:id and GET /api/posts/slug/:slug do with the post
\* they looked up.  post.incrementViews() changes a counter that is not part
\* of the model; it can fail like every store call.
sendPost(r, post, dbFails) ==
    IF dbFails = "find" THEN fail(r, StoreError)
    ELSE IF post.isNull THEN fail(r, AppError("Post not found", 404))
    ELSE IF /\ post.doc.status # "published"
            /\ (r.user.isNull \/ r.user.doc.role # "admin")
    THEN fail(r, AppError("Post not found", 404))
    ELSE IF /\ dbFails = "incrementViews"
            /\ \/ r.user.isNull
               \/ toString(r.user.doc._id) # toString(ObjectId(post.doc.author))
    THEN fail(r, StoreError)
    ELSE respond([r EXCEPT !.post = post, !.sent = {post.doc.id}], 200, "")

\* GET /api/posts/:id
HandleGetPost ==
    /\ req.pc = "next" /\ req.route = GET_POST
    /\ \E dbFails \in {"no", "find", "incrementViews"} :
         req' = sendPost([req EXCEPT !.handlerRan = TRUE],
                         postById(posts, req.param), dbFails)
    /\ UNCHANGED <<users, posts, clock, lifetime, wire, tokenVars, headerVars,
                   gateVars, valVars, formVars>>

\* GET /api/posts/slug/:slug
HandleGetPostBySlug ==
    /\ req.pc = "next" /\ req.route = GET_POST_SLUG
    /\ \E dbFails \in {"no", "find", "incrementViews"} :
         req' = sendPost([req EXCEPT !.handlerRan = TRUE],
                         postBySlug(posts, req.param), dbFails)
    /\ UNCHANGED <<users, posts, clock, lifetime, wire, tokenVars, headerVars,
                   gateVars, valVars, formVars>>

\* GET /api/users/:id/posts, for a request with no page and limit.
HandleGetUserPosts ==
    /\ req.pc = "next" /\ req.route = GET_USER_POSTS
    /\ \E dbFails \in {"no", "findById", "find"} :
         LET r    == [req EXCEPT !.handlerRan = TRUE]
             user == findById(users, req.param)
         IN  IF dbFails = "findById" THEN req' = fail(r, StoreError)
             ELSE IF user.isNull
             THEN req' = fail(r, AppError("User not found", 404))
             ELSE IF dbFails = "find" THEN req' = fail(r, StoreError)
             ELSE req' = respond(
                     [r EXCEPT !.sent =
                        {p.id : p \in userPostsQuery(posts, req.param, req.query)}],
                     200, "")
    /\ UNCHANGED <<users, posts, clock, lifetime, wire, tokenVars, headerVars,
                   gateVars, valVars, formVars>>

ReadNext ==
    \/ RdOptionalAuthBegin
    \/ OptionalAuthResume
    \/ RdPublicBegin
    \/ HandleGetPosts
    \/ HandleGetPost
    \/ HandleGetPostBySlug
    \/ HandleGetUserPosts
    \/ Complete

ReadSpec == ReadInit /\ [][ReadNext]_vars

(***************************************************************************)
(* ChainSpec: the auth middlewares with a continuation that may throw      *)
(***************************************************************************)
\* next() sits inside the try block of both middlewares.  When the
\* continuation throws through next(), the catch block of authenticate
\* answers 401 'Authentication failed' ...
authenticate_catch(r) == respond(r, 401, "Authentication failed")

\* ... and the catch block of optionalAuth calls next() again.
optionalAuth_catch(r) == callNext(r)

\* The continuation next() started runs to its end without throwing into
\* the middleware: some handler answers.
ContinuationReturns ==
    /\ req.pc = "next"
    /\ \E status \in {200, 404, 500} :
         req' = respond([req EXCEPT !.handlerRan = TRUE], status, "")
    /\ UNCHANGED <<users, posts, clock, lifetime, wire, tokenVars, headerVars,
                   gateVars, valVars, formVars>>

\* The continuation throws and the exception comes out of next().  Out of
\* the next() of a try block it lands in the catch block; out of the next()
\* of optionalAuth's catch block it rejects the promise of the middleware.
ContinuationThrows ==
    /\ req.pc = "next"
    /\ req' = IF req.mw = "authenticate" THEN authenticate_catch(req)
              ELSE IF req.nextCalls = 1 THEN optionalAuth_catch(req)
              ELSE [req EXCEPT !.pc = "done"]
    /\ UNCHANGED <<users, posts, clock, lifetime, wire, tokenVars, headerVars,
                   gateVars, valVars, formVars>>

ChainNext ==
    \/ AuthenticateBegin
    \/ AuthenticateResume
    \/ OptionalAuthBegin
    \/ OptionalAuthResume
    \/ ContinuationReturns
    \/ ContinuationThrows
    \/ Complete

ChainSpec == AccountInit /\ [][ChainNext]_vars

(***************************************************************************)
(* Form component (client/src/components/Form.jsx)                         *)
(***************************************************************************)
\* field.validation: absent, or the rules of a field (0 and "" for a rule
\* that is not set).
NoValidation ==
    [present |-> FALSE, required |-> FALSE, minLength |-> 0, maxLength |-> 0,
     pattern |-> "", errorMessage |-> "", custom |-> ""]
Validation(required, minLength, maxLength, pattern, errorMessage, custom) ==
    [present |-> TRUE, required |-> required, minLength |-> minLength,
     maxLength |-> maxLength, pattern |-> pattern,
     errorMessage |-> errorMessage, custom |-> custom]

\* /^[^\s@]+@[^\s@]+\.[^\s@]+$/.test(s)
emailPattern(s) ==
    /\ Cardinality(atSigns(s)) = 1
    /\ \A i \in 1..Len(s) : ~isWhitespace(s[i])
    /\ LET at == CHOOSE i \in atSigns(s) : TRUE
       IN  /\ at > 1
           /\ \E i \in (at + 2)..(Len(s) - 1) : s[i] = "."

\* pattern.test(value): the value is converted to a string first, undefined
\* to 'undefined'.
patternTest(pattern, value) ==
    LET s == IF value.kind = "undefined"
             THEN <<"u", "n", "d", "e", "f", "i", "n", "e", "d">>
             ELSE value.s
    IN  IF pattern = "email" THEN emailPattern(s) ELSE TRUE

\* validation.custom(value) of the one custom rule drawn: 'ab' is refused.
customRule(custom, value) ==
    IF custom = "notAb" /\ value.kind = "string" /\ value.s = <<"a", "b">>
    THEN "ab is not allowed" ELSE ""

\* The outcome of a call: a returned error message ("" for null), or a
\* thrown TypeError.
Returned(error) == [threw |-> FALSE, error |-> error]
TypeError == [threw |-> TRUE, error |-> ""]

\* validateField: the first rule the value breaks gives the message.
\* value.length of an undefined value throws a TypeError.
validateField(name, value, validation) ==
    IF ~validation.present THEN Returned("")
    ELSE IF validation.required /\ falsyValue(value)
    THEN Returned(name \o " is required")
    ELSE IF validation.minLength # 0 /\ value.kind = "undefined"
    THEN TypeError
    ELSE IF validation.minLength # 0 /\ Len(value.s) < validation.minLength
    THEN Returned(name \o " must be at least "
                       \o ToString(validation.minLength) \o " characters")
    ELSE IF validation.maxLength # 0 /\ value.kind = "undefined"
    THEN TypeError
    ELSE IF validation.maxLength # 0 /\ Len(value.s) > validation.maxLength
    THEN Returned(name \o " must be no more than "
                       \o ToString(validation.maxLength) \o " characters")
    ELSE IF validation.pattern # "" /\ ~patternTest(validation.pattern, value)
    THEN Returned(IF validation.errorMessage # "" THEN validation.errorMessage
                  ELSE name \o " format is invalid")
    ELSE IF validation.custom # ""
    THEN Returned(customRule(validation.custom, value))
    ELSE Returned("")

\* validateForm: the new errors object (a name without an error maps to "")
\* and whether it is empty; the forEach stops at a validateField that throws.
validateForm(fields, formData) ==
    LET checked == [i \in 1..Len(fields) |->
                      validateField(fields[i].name, formData[fields[i].name],
                                    fields[i].validation)]
        names   == {fields[i].name : i \in 1..Len(fields)}
        errorOf(name) ==
            checked[CHOOSE i \in 1..Len(fields) :
                       /\ fields[i].name = name
                       /\ \A j \in 1..Len(fields) : fields[j].name = name => j <= i].error
    IN  [threw     |-> \E i \in 1..Len(fields) : checked[i].threw,
         newErrors |-> [name \in names |-> errorOf(name)],
         valid     |-> \A i \in 1..Len(fields) : checked[i].error = ""]

(***************************************************************************)
(* FormSpec: a mounted Form, typed into and submitted                      *)
(***************************************************************************)
\* The rules of the fields of the tests, and rules without 'required'.
UsernameFieldRules ==
    { NoValidation,
      Validation(TRUE, 3, 0, "", "", ""),
      Validation(TRUE, 0, 0, "", "", ""),
      Validation(FALSE, 3, 0, "", "", ""),
      Validation(FALSE, 0, 4, "", "", ""),
      Validation(FALSE, 0, 0, "", "", "notAb") }
EmailFieldRules ==
    { Validation(TRUE, 0, 0, "email", "Please enter a valid email", ""),
      Validation(FALSE, 0, 0, "email", "", "") }

Forms ==
    { << [name |-> "username", validation |-> u],
         [name |-> "email", validation |-> e] >> :
        u \in UsernameFieldRules, e \in EmailFieldRules }

\* What a user types into a field.
TypedValues ==
    { String(<<>>), String(<<"a", "b">>), String(<<"a", "b", "c", "d", "e">>),
      String(<<"a", "@", "b", ".", "c">>) }

FormInit ==
    /\ \E fields \in Forms :
         form = [mounted  |-> TRUE,
                 fields   |-> fields,
                 formData |-> [name \in {"username", "email"} |-> Undefined],
                 errors   |-> [name \in {"username", "email"} |-> ""],
                 submits  |-> 0,
                 calls    |-> <<>>,
                 rejected |-> FALSE]
    /\ TokenIdle
    /\ HeaderIdle
    /\ SysIdle
    /\ GateIdle
    /\ ValIdle

\* handleInputChange(name, value): the value is stored and the error of the
\* field, if there is one, is cleared.
FmInputChange ==
    /\ form.mounted
    /\ \E name \in DOMAIN form.formData, value \in TypedValues :
         form' = [form EXCEPT !.formData[name] = value, !.errors[name] = ""]
    /\ UNCHANGED <<tokenVars, headerVars, sysVars, gateVars, valVars>>

\* handleSubmit: validateForm, then onSubmit(formData) when the form is
\* valid.  A TypeError inside validateForm leaves the state as it was and
\* rejects the promise of handleSubmit; a rejection of onSubmit is caught.
FmSubmit ==
    /\ form.mounted
    /\ form.submits < MaxSubmits
    /\ LET v == validateForm(form.fields, form.formData)
       IN  IF v.threw
           THEN form' = [form EXCEPT !.submits = @ + 1, !.rejected = TRUE]
           ELSE IF ~v.valid
           THEN form' = [form EXCEPT !.submits = @ + 1, !.rejected = FALSE,
                                     !.errors = v.newErrors]
           ELSE form' = [form EXCEPT !.submits = @ + 1, !.rejected = FALSE,
                                     !.errors = v.newErrors,
                                     !.calls = Append(@, form.formData)]
    /\ UNCHANGED <<tokenVars, headerVars, sysVars, gateVars, valVars>>

FormNext ==
    \/ FmInputChange
    \/ FmSubmit

FormSpec == FormInit /\ [][FormNext]_vars

(***************************************************************************)
(* Claims about the token service (checked under TokenSpec)                *)
(***************************************************************************)

\* C1: round trip.  Whenever verifyToken ran on an untouched token made by
\* generateToken for the user, at a time before the token's expiry, it
\* succeeded and the claims it returned carry the user's id (in string
\* form), email, username and role.
C1_RoundTrip ==
    (tkResult.called /\ tkTamper = "none" /\ tkResult.at < tkToken.payload.exp)
        => /\ tkResult.ok
           /\ tkResult.decoded.id = toString(tkUser._id)
           /\ tkResult.decoded.email = tkUser.email
           /\ tkResult.decoded.username = tkUser.username
           /\ tkResult.decoded.role = tkUser.role

\* An admin with a boxed id got a token and verified it before its expiry.
C1_Witness ==
    /\ tkResult.called /\ tkTamper = "none" /\ tkResult.ok
    /\ tkUser._id.boxed /\ tkUser.role = "admin"
    /\ tkResult.at > tkToken.payload.iat

\* C2: tamper evidence.  Whenever verifyToken ran on a token whose payload
\* or signature was altered after issuance, or that was signed with another
\* secret, it failed and returned no claims.
C2_TamperFails ==
    (tkResult.called /\ tkTamper \in {"payload", "signature", "secret"})
        => /\ ~tkResult.ok
           /\ tkResult.decoded = NoClaims

\* A token whose role was rewritten to admin was verified while unexpired.
C2_Witness ==
    /\ tkResult.called /\ tkTamper = "payload"
    /\ tkUser.role = "user" /\ tkToken.payload.role = "admin"
    /\ tkResult.at < tkToken.payload.exp
    /\ ~tkResult.ok

AllKindsSeen == \A k \in FailureKinds : tkSeen[k] # NotSeen

\* C3 as stated: the caller of verifyToken can tell the three failure kinds
\* apart, i.e. the errors it observed for two different kinds differ.
C3_Distinguishable ==
    \A k1, k2 \in FailureKinds :
        (k1 # k2 /\ tkSeen[k1] # NotSeen /\ tkSeen[k2] # NotSeen)
            => <<tkSeen[k1].name, tkSeen[k1].message>>
                 # <<tkSeen[k2].name, tkSeen[k2].message>>

\* C3 as amended: a malformed token, an expired token and a token with a
\* non-matching signature all fail with the same error, Error('Invalid
\* token'); the kinds differ only in the message handed to the logger.
C3_SameFailure ==
    /\ \A k \in FailureKinds :
          tkSeen[k] # NotSeen
              => tkSeen[k].name = "Error" /\ tkSeen[k].message = "Invalid token"
    /\ \A k1, k2 \in FailureKinds :
          (k1 # k2 /\ tkSeen[k1] # NotSeen /\ tkSeen[k2] # NotSeen)
              => tkSeen[k1].logged # tkSeen[k2].logged

C3_Witness == AllKindsSeen

\* C4 as stated: verifyToken returns no claims once the clock has reached
\* the expiry, and a token of lifetime 0 fails at once with the
\* token-expired failure (an error of the expiry kind).
C4_ExpiredKind ==
    /\ (tkResult.called /\ tkToken.kind = "jwt"
            /\ tkResult.at >= tkToken.payload.exp) => ~tkResult.ok
    /\ (tkResult.called /\ tkTamper = "none" /\ tkExpiresIn = 0)
            => ~tkResult.ok /\ tkResult.name = "TokenExpiredError"

\* C4 as amended: verifyToken returns no claims once the clock has reached
\* the expiry, and a token of lifetime 0 fails at once, with the generic
\* Error('Invalid token'); that it expired shows only in the log.
C4_ExpiredFails ==
    /\ (tkResult.called /\ tkToken.kind = "jwt"
            /\ tkResult.at >= tkToken.payload.exp) => ~tkResult.ok
    /\ (tkResult.called /\ tkTamper = "none" /\ tkExpiresIn = 0)
            => /\ ~tkResult.ok
               /\ tkResult.name = "Error"
               /\ tkResult.message = "Invalid token"
               /\ tkResult.logged = "jwt expired"

\* A token of lifetime 0 was verified in the very second it was issued.
C4_Witness ==
    /\ tkResult.called /\ tkTamper = "none" /\ tkExpiresIn = 0
    /\ tkResult.at = tkToken.payload.iat
    /\ ~tkResult.ok

(***************************************************************************)
(* Claims about bearer extraction (checked under HeaderSpec)               *)
(***************************************************************************)
\* What the contract of the extraction asks for: none for an absent header,
\* for a header without the exact prefix "Bearer ", and for a remainder that
\* is empty after trimming; the remainder otherwise.
ExpectedExtraction(h) ==
    IF h.isNull \/ ~startsWith(h.s, BearerPrefix) THEN Null
    ELSE IF trim(substring(h.s, 7)) = <<>> THEN Null
    ELSE Str(substring(h.s, 7))

\* C5: extractTokenFromHeader returns null for an absent header, for a header
\* that does not start with "Bearer ", and for a header whose remainder after
\* the prefix is empty after trimming; otherwise it returns the remainder.
C5_ExtractContract ==
    extracted.called => extracted.token = ExpectedExtraction(authHeader)

(***************************************************************************)
(* Claims about the authentication middleware (checked under Spec)         *)
(***************************************************************************)
\* The request carries the text of an issued token that was unexpired when
\* verifyToken ran on it.
TokenVerifies(r) ==
    \E i \in 1..Len(wire) :
        /\ r.header = Str(BearerPrefix \o <<TokenName(i)>>)
        /\ r.verifiedAt < wire[i].payload.exp

\* The token the request carries, when it carries the text of an issued one.
IssuedToken(r) ==
    wire[CHOOSE i \in 1..Len(wire) : r.header = Str(BearerPrefix \o <<TokenName(i)>>)]

\* The store answered the query of getCurrentUser with an active record.
ActiveRecordFound(r) ==
    /\ r.storeQueries = 1 /\ ~r.lookup.threw
    /\ ~r.found.isNull /\ r.found.doc.isActive

\* getCurrentUser was called for the request and has returned.
GetCurrentUserReturned(r) ==
    /\ r.mw \in {"authenticate", "optionalAuth"}
    /\ r.verifyCalls = 1
    /\ r.pc \in {"next", "done"}

C7_WitnessNoRecord ==
    /\ GetCurrentUserReturned(req) /\ TokenVerifies(req)
    /\ req.storeQueries = 1 /\ ~req.lookup.threw /\ req.found.isNull

\* C8: whatever tokens were issued and whatever was deactivated or
\* activated before, a request whose token belongs to an account that is
\* inactive when authenticate looks it up is answered 401, is not passed on
\* and its handler never runs.
C8_InactiveRejected ==
    (/\ req.mw = "authenticate" /\ req.storeQueries = 1
     /\ ~req.found.isNull /\ ~req.found.doc.isActive)
        => /\ req.pc = "done" /\ req.status = 401
           /\ req.user.isNull
           /\ req.nextCalls = 0 /\ ~req.handlerRan

\* A token that verified (so it was issued while the account could log in)
\* met a deactivated account.
C8_Witness ==
    /\ req.mw = "authenticate" /\ req.storeQueries = 1 /\ ~req.lookup.threw
    /\ TokenVerifies(req)
    /\ ~req.found.isNull /\ ~req.found.doc.isActive
    /\ req.status = 401

\* C9: optionalAuth never rejects.  Once it is through, it has called next
\* exactly once and sent no response of its own (the only responses are the
\* handler's), and req.user is set exactly when a token was extracted,
\* verified and resolved to an active record.
C9_OptionalNeverRejects ==
    (req.mw = "optionalAuth" /\ req.pc \in {"next", "done"}) =>
        /\ req.nextCalls = 1
        /\ req.pc = "done" => req.handlerRan /\ req.status \in {200, 500}
        /\ ~req.user.isNull <=>
              (/\ ~falsy(extractTokenFromHeader(req.header))
               /\ TokenVerifies(req) /\ ActiveRecordFound(req))

\* optionalAuth passed on, anonymously, a request whose token verified but
\* whose account is deactivated.
C9_Witness ==
    /\ req.mw = "optionalAuth" /\ req.pc = "next"
    /\ TokenVerifies(req) /\ req.storeQueries = 1
    /\ ~req.found.isNull /\ ~req.found.doc.isActive
    /\ req.user.isNull

\* C10: when the store query of getCurrentUser throws or rejects, nothing
\* propagates: getCurrentUser yields null (req.user stays unset),
\* authenticate answers 401 without passing the request on, and optionalAuth
\* passes the request on anonymously.
C10_LookupFailureContained ==
    (req.storeQueries = 1 /\ req.lookup.threw) =>
        /\ req.user.isNull
        /\ req.mw = "authenticate" =>
              /\ req.pc = "done" /\ req.status = 401
              /\ req.nextCalls = 0 /\ ~req.handlerRan
        /\ req.mw = "optionalAuth" =>
              /\ req.pc \in {"next", "done"} /\ req.nextCalls = 1
              /\ req.pc = "done" => req.handlerRan

\* The store failed under authenticate for the token of an active admin.
C10_Witness ==
    /\ req.mw = "authenticate" /\ req.storeQueries = 1 /\ req.lookup.threw
    /\ ~req.found.isNull /\ req.found.doc.isActive /\ req.found.doc.role = "admin"
    /\ req.status = 401

\* The store failed under optionalAuth and the handler answered all the same.
C10_WitnessOptional ==
    /\ req.mw = "optionalAuth" /\ req.storeQueries = 1 /\ req.lookup.threw
    /\ req.pc = "done" /\ req.status = 200

(***************************************************************************)
(* Claims about a lookup that does not complete (checked under LiveSpec)   *)
(***************************************************************************)
\* C11: every request that enters authenticate or optionalAuth and waits for
\* the identity store is eventually answered (401) or passed on via next,
\* also when the store never completes the lookup.
C11_SlowLookupDegrades ==
    (req.pc = "lookup") ~> (req.pc \in {"next", "done"})

(***************************************************************************)
(* Claims about the authorization policy (checked under GateSpec)          *)
(***************************************************************************)
\* The roles a roles argument names: the one role, or the array's elements.
RoleSet(roles) ==
    IF roles.isArray THEN {roles.items[i] : i \in 1..Len(roles.items)}
    ELSE {roles.value}

\* The gate called next().
PassedOn(g) == g.r.nextCalls = 1

\* The gate answered the request itself and the handler never ran.
RejectedWith(g, status, error) ==
    /\ g.r.pc = "done" /\ g.r.status = status /\ g.r.error = error
    /\ g.r.nextCalls = 0 /\ ~g.r.handlerRan

\* C12: authorize(roles), for one role or a list, passes the request on
\* exactly when hasRole(req.user, roles) is true, that is when req.user is
\* present and its role is one of roles; with req.user absent it answers 401
\* 'Authentication required', with another role 403 'Insufficient
\* permissions', and in both rejections the handler never runs.
C12_AuthorizeGate ==
    gate.fn = "authorize" =>
        /\ PassedOn(gate) <=> hasRole(gate.user, gate.roles)
        /\ PassedOn(gate) <=>
              (~gate.user.isNull /\ gate.user.doc.role \in RoleSet(gate.roles))
        /\ gate.user.isNull => RejectedWith(gate, 401, "Authentication required")
        /\ (~gate.user.isNull /\ gate.user.doc.role \notin RoleSet(gate.roles))
              => RejectedWith(gate, 403, "Insufficient permissions")

\* authorize(['moderator', 'admin']) let an admin through to the handler.
C12_Witness ==
    /\ gate.fn = "authorize" /\ gate.roles = List(<<"moderator", "admin">>)
    /\ ~gate.user.isNull /\ gate.user.doc.role = "admin"
    /\ gate.r.handlerRan

\* authorize('admin') turned a user away.
C12_WitnessRejected ==
    /\ gate.fn = "authorize" /\ gate.roles = Single("admin")
    /\ ~gate.user.isNull /\ gate.user.doc.role = "user"
    /\ gate.r.status = 403

\* C13: isOwner is false when the user or the resource id is absent, and
\* otherwise true exactly when the string forms of user._id and of the
\* resource id are equal, whether either is a string or an ObjectId.
C13_IsOwner ==
    gate.fn = "isOwner" =>
        /\ (gate.user.isNull \/ gate.resource.isNull) => ~gate.returned
        /\ (~gate.user.isNull /\ ~falsyId(gate.resource)) =>
              (gate.returned <=> gate.user.doc._id.hex = gate.resource.id.hex)

\* isOwner held between an ObjectId and the string of the same id.
C13_Witness ==
    /\ gate.fn = "isOwner" /\ gate.returned
    /\ ~gate.user.isNull /\ gate.user.doc._id.boxed /\ ~gate.resource.id.boxed

\* C14 as stated: requireOwner lets an authenticated request proceed if and
\* only if isOwner(req.user, resourceOwnerId) is true or req.user.role is
\* 'admin' (so an admin proceeds also when no resource owner id is
\* available), and answers a non-owner non-admin 403.
C14_OwnerOrAdmin ==
    (gate.fn = "requireOwner" /\ ~gate.user.isNull) =>
        /\ PassedOn(gate) <=>
              (isOwner(gate.user, gate.resource) \/ gate.user.doc.role = "admin")
        /\ ~(isOwner(gate.user, gate.resource) \/ gate.user.doc.role = "admin")
              => gate.r.status = 403

\* C14 as amended: when no resource owner id is available, requireOwner
\* answers every authenticated request, an admin's included, 400 'Resource
\* not found'; when one is available the request proceeds if and only if
\* isOwner is true or the role is 'admin', and a non-owner non-admin is
\* answered 403 'Access denied'.
C14_OwnerOrAdminOfResource ==
    (gate.fn = "requireOwner" /\ ~gate.user.isNull) =>
        /\ falsyId(gate.resource) => RejectedWith(gate, 400, "Resource not found")
        /\ ~falsyId(gate.resource) =>
              /\ PassedOn(gate) <=>
                    (isOwner(gate.user, gate.resource) \/ gate.user.doc.role = "admin")
              /\ ~PassedOn(gate) => RejectedWith(gate, 403, "Access denied")

\* An admin who does not own the resource went through to the handler.
C14_Witness ==
    /\ gate.fn = "requireOwner" /\ ~gate.user.isNull
    /\ gate.user.doc.role = "admin" /\ ~falsyId(gate.resource)
    /\ ~isOwner(gate.user, gate.resource)
    /\ gate.r.handlerRan

\* An admin was answered 400 for want of a resource owner id.
C14_WitnessNoResource ==
    /\ gate.fn = "requireOwner" /\ ~gate.user.isNull
    /\ gate.user.doc.role = "admin" /\ gate.resource.isNull
    /\ gate.r.status = 400

\* C16: an identity whose role is anything but 'admin' (another role of the
\* enumeration, a value outside it, or none) gets no admin privilege:
\* hasRole(identity, 'admin') and isAdmin are false, requireAdmin answers
\* 403, and requireOwner does not let it through to a resource it does not
\* own.
C16_NonAdminNeverElevated ==
    (~gate.user.isNull /\ gate.user.doc.role # "admin") =>
        /\ (gate.fn = "hasRole" /\ gate.roles = Single("admin")) => ~gate.returned
        /\ gate.fn = "isAdmin" => ~gate.returned
        /\ gate.fn = "requireAdmin" =>
              RejectedWith(gate, 403, "Insufficient permissions")
        /\ (gate.fn = "requireOwner"
              /\ (falsyId(gate.resource)
                    \/ gate.user.doc._id.hex # gate.resource.id.hex))
              => /\ ~PassedOn(gate) /\ ~gate.r.handlerRan
                 /\ gate.r.pc = "done" /\ gate.r.status \in {400, 403}

\* requireAdmin turned away a user whose role is 'Admin', not 'admin'.
C16_Witness ==
    /\ gate.fn = "requireAdmin" /\ ~gate.user.isNull
    /\ gate.user.doc.role = "Admin"
    /\ gate.r.status = 403

\* requireOwner turned away a user without a role from another's resource.
C16_WitnessOwner ==
    /\ gate.fn = "requireOwner" /\ ~gate.user.isNull
    /\ gate.user.doc.role = UndefinedRole
    /\ ~falsyId(gate.resource) /\ gate.user.doc._id.hex # gate.resource.id.hex
    /\ gate.r.status = 403

(***************************************************************************)
(* Claims about the post routes (checked under Spec)                       *)
(***************************************************************************)
\* The requester is the author of the post the handler loaded, or an admin.
AuthorOrAdmin(r) ==
    /\ ~r.user.isNull /\ ~r.post.isNull
    /\ \/ r.user.doc._id.hex = r.post.doc.author
       \/ r.user.doc.role = "admin"

\* C15: in DELETE /api/posts/:id and PUT /api/posts/:id the post is deleted
\* or updated only if the authenticated requester is its author or an admin;
\* the posts change in no other way; and a requester with role user asking
\* to delete a post of another user is answered 403 with the post left as it
\* was.
C15_OnlyAuthorOrAdminWrites ==
    [][ /\ posts' # posts =>
              /\ req'.route \in {DELETE_POST, PUT_POST}
              /\ req'.wrote /\ AuthorOrAdmin(req')
              /\ \A p \in posts : p.id # req'.param => p \in posts'
              /\ \A p \in posts' : p.id # req'.param => p \in posts
        /\ (/\ req.pc = "next" /\ req'.pc = "done" /\ req.route = DELETE_POST
            /\ ~req'.post.isNull /\ req.user.doc.role = "user"
            /\ req'.post.doc.author # req.user.doc._id.hex)
              => /\ req'.status = 403 /\ req'.error = "Access denied"
                 /\ ~req'.wrote /\ posts' = posts
      ]_vars

\* A user was refused the deletion of the admin's post, which is still there.
C15_Witness ==
    /\ req.route = DELETE_POST /\ req.pc = "done" /\ req.status = 403
    /\ req.user.doc.role = "user" /\ req.post.doc.author = "u1"
    /\ req.post.doc \in posts

\* A user deleted a post of their own.
C15_WitnessOwnPost ==
    /\ req.route = DELETE_POST /\ req.pc = "done" /\ req.wrote
    /\ req.user.doc.role = "user" /\ req.post.doc.author = "u2"
    /\ req.post.doc \notin posts

\* An admin updated the post of a user.
C15_WitnessAdminUpdate ==
    /\ req.route = PUT_POST /\ req.pc = "done" /\ req.wrote
    /\ req.user.doc.role = "admin" /\ req.post.doc.author = "u2"
    /\ req.body.status = "published"

(***************************************************************************)
(* Claims about the validators (checked under ValidationSpec)              *)
(***************************************************************************)
\* The messages of a rule table whose rule is violated, in table order.
RECURSIVE ViolatedMessages(_)
ViolatedMessages(table) ==
    IF table = <<>> THEN <<>>
    ELSE (IF Head(table).violated THEN <<Head(table).message>> ELSE <<>>)
            \o ViolatedMessages(Tail(table))

PasswordRules(s) ==
    << [violated |-> Len(s) < 6,
        message  |-> "Password must be at least 6 characters long"],
       [violated |-> \A i \in 1..Len(s) : s[i] \notin LowerCase,
        message  |-> "Password must contain at least one lowercase letter"],
       [violated |-> \A i \in 1..Len(s) : s[i] \notin UpperCase,
        message  |-> "Password must contain at least one uppercase letter"],
       [violated |-> \A i \in 1..Len(s) : s[i] \notin Digit,
        message  |-> "Password must contain at least one number"],
       [violated |-> \A i \in 1..Len(s) : s[i] \notin Special,
        message  |-> "Password must contain at least one special character (!@#$%^&*)"] >>

\* C17: validatePassword reports every violated rule at once.  An absent or
\* empty password yields exactly 'Password is required'; any other yields
\* exactly the messages of the violated rules among length >= 6, lowercase,
\* uppercase, digit, special character, in that order, and isValid is true
\* exactly when none is violated; 'weak' yields the four violations too
\* short, no uppercase, no digit, no special, and 'StrongPass123!' none.
C17_PasswordReportsAll ==
    (val.fn = "validatePassword" /\ val.called) =>
        /\ (val.password.isNull \/ val.password.s = <<>>) =>
              val.out = [isValid |-> FALSE, errors |-> <<"Password is required">>]
        /\ (~val.password.isNull /\ val.password.s # <<>>) =>
              /\ val.out.errors = ViolatedMessages(PasswordRules(val.password.s))
              /\ val.out.isValid <=>
                    \A i \in 1..5 : ~PasswordRules(val.password.s)[i].violated
        /\ val.password = Str(Weak) =>
              val.out = [isValid |-> FALSE,
                         errors |->
                           <<"Password must be at least 6 characters long",
                             "Password must contain at least one uppercase letter",
                             "Password must contain at least one number",
                             "Password must contain at least one special character (!@#$%^&*)">>]
        /\ val.password = Str(StrongPass123) =>
              val.out = [isValid |-> TRUE, errors |-> <<>>]

\* validatePassword ran on 'weak'.
C17_Witness ==
    /\ val.fn = "validatePassword" /\ val.called
    /\ val.password = Str(Weak) /\ Len(val.out.errors) = 4

\* validatePassword accepted an enumerated password of six characters.
C17_WitnessValid ==
    /\ val.fn = "validatePassword" /\ val.called
    /\ Len(val.password.s) = 6 /\ val.out.isValid

UsernameRules(s) ==
    << [violated |-> Len(s) < 3,
        message  |-> "Username must be at least 3 characters long"],
       [violated |-> Len(s) > 30,
        message  |-> "Username must be no more than 30 characters long"],
       [violated |-> \E i \in 1..Len(s) :
                        s[i] \notin LowerCase \cup UpperCase \cup Digit \cup {"_"},
        message  |-> "Username can only contain letters, numbers, and underscores"] >>

\* The limits in force for a call: those of the options, else the defaults
\* (5MB; jpeg, png, gif).
MaxSizeInForce(options) ==
    IF options.hasMaxSize THEN options.maxSize ELSE 5 * 1024 * 1024
AllowedInForce(options) ==
    IF options.hasAllowedTypes THEN options.allowedTypes
    ELSE <<"image/jpeg", "image/png", "image/gif">>

FileRules(file, options) ==
    << [violated |-> file.size > MaxSizeInForce(options),
        message  |-> fileSizeMessage(MaxSizeInForce(options))],
       [violated |-> \A i \in 1..Len(AllowedInForce(options)) :
                        AllowedInForce(options)[i] # file.mimetype,
        message  |-> fileTypeMessage(AllowedInForce(options))] >>

\* C18: validateUsername and validateFileUpload aggregate.  For a present
\* input the errors hold one entry for each violated rule and no other
\* (username: shorter than 3, longer than 30, a character that is no letter,
\* digit or underscore; file: size above maxSize, mimetype not in
\* allowedTypes) and isValid is true exactly when there is none; for an
\* absent input the result is exactly the one 'required' violation.
C18_AggregateAllRules ==
    /\ (val.fn = "validateUsername" /\ val.called) =>
          /\ falsy(val.username) =>
                val.out = [isValid |-> FALSE, errors |-> <<"Username is required">>]
          /\ ~falsy(val.username) =>
                /\ val.out.errors = ViolatedMessages(UsernameRules(val.username.s))
                /\ val.out.isValid <=> val.out.errors = <<>>
    /\ (val.fn = "validateFileUpload" /\ val.called) =>
          /\ val.file.isNull =>
                val.out = [isValid |-> FALSE, errors |-> <<"File is required">>]
          /\ ~val.file.isNull =>
                /\ val.out.errors =
                      ViolatedMessages(FileRules(val.file, val.options))
                /\ val.out.isValid <=> val.out.errors = <<>>

\* A username that is both too short and ill-formed got both violations.
C18_Witness ==
    /\ val.fn = "validateUsername" /\ val.called
    /\ val.username = Str(<<"-">>)
    /\ Len(val.out.errors) = 2

\* A username that is both too long and ill-formed got both violations.
C18_WitnessLong ==
    /\ val.fn = "validateUsername" /\ val.called
    /\ Len(val.username.s) > 30
    /\ Len(val.out.errors) = 2

\* A file that is both too large and of a type not allowed got both.
C18_WitnessFile ==
    /\ val.fn = "validateFileUpload" /\ val.called
    /\ ~val.file.isNull /\ ~val.options.hasMaxSize
    /\ Len(val.out.errors) = 2

\* C19: validatePagination coerces page and limit to integers and returns
\* page = max(1, page), limit = min(100, max(1, limit)) and
\* skip = (page - 1) * limit of the returned values, for every integer or
\* numeric-string input (limit '0' and limit '-5' both yield 1); absent
\* parameters default to page 1 and limit 10.
C19_PaginationClamps ==
    (val.fn = "validatePagination" /\ val.called) =>
        LET page  == IF val.meant.page.given THEN val.meant.page.n ELSE 1
            limit == IF val.meant.limit.given THEN val.meant.limit.n ELSE 10
        IN  /\ val.out.page = (IF page >= 1 THEN page ELSE 1)
            /\ val.out.limit =
                  (IF limit > 100 THEN 100 ELSE IF limit >= 1 THEN limit ELSE 1)
            /\ val.out.skip = (val.out.page - 1) * val.out.limit

\* C20: validateDateRange checks each end on its own: a start date that is
\* present and does not parse as a date puts 'Invalid start date format'
\* into the errors, an end date that is present and does not parse puts
\* 'Invalid end date format' there, whether or not the other end is present.
C20_EachEndChecked ==
    (val.fn = "validateDateRange" /\ val.called) =>
        /\ (~falsy(val.startDate) /\ parseDate(val.startDate.s).nan) =>
              \E i \in 1..Len(val.out.errors) :
                  val.out.errors[i] = "Invalid start date format"
        /\ (~falsy(val.endDate) /\ parseDate(val.endDate.s).nan) =>
              \E i \in 1..Len(val.out.errors) :
                  val.out.errors[i] = "Invalid end date format"

\* C21: when both ends of validateDateRange parse as dates the result is
\* valid exactly when start is not after end, and a reversed range yields
\* exactly the one violation 'Start date must be before end date'; when
\* both ends are empty the result is valid with no errors.
C21_OrderedRange ==
    (val.fn = "validateDateRange" /\ val.called) =>
        LET start == parseDate(val.startDate.s)
            end   == parseDate(val.endDate.s)
        IN  /\ (~falsy(val.startDate) /\ ~falsy(val.endDate)
                    /\ ~start.nan /\ ~end.nan) =>
                  /\ val.out.isValid <=> start.n <= end.n
                  /\ start.n > end.n =>
                        val.out.errors = <<"Start date must be before end date">>
                  /\ start.n <= end.n => val.out.errors = <<>>
            /\ (val.startDate = Str(<<>>) /\ val.endDate = Str(<<>>)) =>
                  val.out = [isValid |-> TRUE, errors |-> <<>>]

\* validateDateRange('2023-12-31', '2023-01-01') reported the reversed range.
C21_Witness ==
    /\ val.fn = "validateDateRange" /\ val.called
    /\ val.startDate = Str(isoDate(2023, 12, 31))
    /\ val.endDate = Str(isoDate(2023, 1, 1))
    /\ val.out = [isValid |-> FALSE,
                  errors |-> <<"Start date must be before end date">>]

\* validateDateRange accepted a range whose ends are the same day.
C21_WitnessSameDay ==
    /\ val.fn = "validateDateRange" /\ val.called
    /\ ~falsy(val.startDate) /\ val.startDate = val.endDate
    /\ ~parseDate(val.startDate.s).nan
    /\ val.out.isValid

\* validateDateRange('', '') was accepted.
C21_WitnessEmpty ==
    /\ val.fn = "validateDateRange" /\ val.called
    /\ val.startDate = Str(<<>>) /\ val.endDate = Str(<<>>)
    /\ val.out.isValid

\* What one character of the input becomes: nothing, its entity, or itself.
EscapeOnce(c) ==
    IF c \in {"<", ">"} THEN <<>>
    ELSE IF c = "&" THEN <<"&", "a", "m", "p", ";">>
    ELSE IF c = "\"" THEN <<"&", "q", "u", "o", "t", ";">>
    ELSE IF c = "'" THEN <<"&", "#", "x", "2", "7", ";">>
    ELSE IF c = "/" THEN <<"&", "#", "x", "2", "F", ";">>
    ELSE <<c>>

RECURSIVE EscapeEach(_)
\* Every character of s escaped once, in one pass.
EscapeEach(s) ==
    IF s = <<>> THEN <<>>
    ELSE IF Len(s) = 1 THEN EscapeOnce(s[1])
    ELSE LET half == Len(s) \div 2
         IN  EscapeEach(SubSeq(s, 1, half)) \o EscapeEach(SubSeq(s, half + 1, Len(s)))

\* s without the white space at its two ends.
Trimmed(s) ==
    LET inner == {i \in 1..Len(s) : s[i] \notin {" ", "\t"}}
    IN  IF inner = {} THEN <<>>
        ELSE SubSeq(s, CHOOSE i \in inner : \A j \in inner : i <= j,
                       CHOOSE i \in inner : \A j \in inner : i >= j)

\* 'test &amp; &quot;quote&quot; &#x27;apos&#x27; &#x2F;slash&#x2F;'
SpecialsEscaped ==
    <<"t", "e", "s", "t", " ", "&", "a", "m", "p", ";", " ", "&", "q", "u",
      "o", "t", ";", "q", "u", "o", "t", "e", "&", "q", "u", "o", "t", ";",
      " ", "&", "#", "x", "2", "7", ";", "a", "p", "o", "s", "&", "#", "x",
      "2", "7", ";", " ", "&", "#", "x", "2", "F", ";", "s", "l", "a", "s",
      "h", "&", "#", "x", "2", "F", ";">>

C22_WitnessEntity ==
    /\ val.fn = "sanitizeString" /\ val.called
    /\ val.input = String(<<"&", "\"">>)
    /\ val.out = <<"&", "a", "m", "p", ";", "&", "q", "u", "o", "t", ";">>

\* sanitizeString ran on a number.
C22_WitnessNonString ==
    /\ val.fn = "sanitizeString" /\ val.called
    /\ val.input = Number(123) /\ val.out = <<>>

C23_WitnessLong ==
    /\ val.fn = "validateSearchQuery" /\ val.called
    /\ val.search = String(repeat("a", 150))
    /\ val.out = repeat("a", 100)

\* validateSearchQuery ran on a number.
C23_WitnessNonString ==
    /\ val.fn = "validateSearchQuery" /\ val.called
    /\ val.search = Number(123) /\ val.out = <<>>

(***************************************************************************)
(* Claims about registration and user management (checked under           *)
(* AccountSpec)                                                            *)
(***************************************************************************)
\* C24: a request rejected for a validation failure is answered with status
\* 400 and a body that carries the full list of violations (every violated
\* rule of the validation result), not only a generic message.
C24_ValidationFailureListsViolations ==
    (req.pc = "done" /\ req.violations # <<>>) =>
        /\ req.status = 400
        /\ req.details.present
        /\ req.details.list = req.violations

\* A stored user has the username or the email of the body.
TakenBy(store, body) ==
    {h \in DOMAIN store :
        /\ store[h].exists
        /\ \/ store[h].doc.username = body.username
           \/ store[h].doc.email = body.email}

C25_WitnessEmail ==
    /\ req.route = REGISTER /\ req.pc = "done"
    /\ req.body.username = "newuser" /\ req.body.email = "admin@example.com"
    /\ req.status = 400 /\ req.error = "User already exists"

\* A registration with a new username and a new email was answered 201.
C25_WitnessRegistered ==
    /\ req.route = REGISTER /\ req.pc = "done"
    /\ req.status = 201 /\ req.issued
    /\ users[NewId].exists /\ users[NewId].doc.username = "newuser"

(***************************************************************************)
(* Claims about the Form component (checked under FormSpec)                *)
(***************************************************************************)
\* Whether a value passes the rules of a field; a field never typed into has
\* no characters.
FieldPasses(field, value) ==
    LET v      == field.validation
        length == IF value.kind = "string" THEN Len(value.s) ELSE 0
    IN  \/ ~v.present
        \/ /\ v.required => ~falsyValue(value)
           /\ v.minLength # 0 => length >= v.minLength
           /\ v.maxLength # 0 => length <= v.maxLength
           /\ v.pattern # "" => patternTest(v.pattern, value)
           /\ v.custom # "" => customRule(v.custom, value) = ""

SubmitStep == form.mounted /\ form'.mounted /\ form'.submits = form.submits + 1
OnSubmitCalled ==
    /\ Len(form'.calls) = Len(form.calls) + 1
    /\ form'.calls[Len(form'.calls)] = form.formData

\* C26: a submission of the form calls onSubmit with the form data exactly
\* when every field passes its rules; otherwise onSubmit is not called and
\* an error is recorded for each field that fails.
C26_SubmitIffEveryFieldPasses ==
    [][SubmitStep =>
         LET failing == {i \in 1..Len(form.fields) :
                           ~FieldPasses(form.fields[i],
                                        form.formData[form.fields[i].name])}
         IN  IF failing = {}
             THEN OnSubmitCalled
             ELSE /\ form'.calls = form.calls
                  /\ \A i \in failing : form'.errors[form.fields[i].name] # ""]_vars

\* The same, for the submissions in which validateForm does not throw.
C26_HoldsWithoutTypeError ==
    [][(SubmitStep /\ ~form'.rejected) =>
         LET failing == {i \in 1..Len(form.fields) :
                           ~FieldPasses(form.fields[i],
                                        form.formData[form.fields[i].name])}
         IN  IF failing = {}
             THEN OnSubmitCalled
             ELSE /\ form'.calls = form.calls
                  /\ \A i \in failing : form'.errors[form.fields[i].name] # ""]_vars

\* C27: role and isActive of an account change only on a request of an
\* admin (PUT /api/users/:id, PUT /api/auth/profile, deactivation), and an
\* account made by POST /api/auth/register starts as an active 'user'
\* whatever role the body names.
C27_OnlyAdminChangesRoleOrActive ==
    [][\A id \in DOMAIN users :
         /\ ( /\ users[id].exists /\ users'[id].exists
              /\ \/ users'[id].doc.role # users[id].doc.role
                 \/ users'[id].doc.isActive # users[id].doc.isActive )
            => /\ ~req.user.isNull
               /\ req.user.doc.role = "admin"
               /\ req'.status = 200
         /\ (~users[id].exists /\ users'[id].exists)
            => /\ req'.route = REGISTER
               /\ users'[id].doc.role = "user"
               /\ users'[id].doc.isActive]_vars

\* An admin has made user1 an admin through PUT /api/users/:id.
C27_Witness ==
    /\ req.pc = "done" /\ req.route = PUT_USER /\ req.status = 200
    /\ req.user.doc.role = "admin"
    /\ users["u2"].doc.role = "admin"

\* A registration whose body named the role 'admin' went through.
C27_WitnessRegistered ==
    /\ req.pc = "done" /\ req.route = REGISTER /\ req.status = 201
    /\ req.body.role = "admin"
    /\ users[NewId].exists /\ users[NewId].doc.role = "user"

\* A user who is no admin sent a role or isActive for their own account and
\* was refused.
C27_WitnessRefused ==
    /\ req.pc = "done" /\ req.route = PUT_USER /\ req.status = 403
    /\ ~req.user.isNull /\ req.user.doc.role = "user"
    /\ req.param = toString(req.user.doc._id)

\* C28: no request authenticated as an admin leaves that admin's own
\* account with isActive false, through POST /api/users/:id/deactivate or
\* PUT /api/users/:id.
C28_AdminNeverDeactivatesSelf ==
    [][\A id \in DOMAIN users :
         ( /\ ~req.user.isNull
           /\ req.user.doc.role = "admin"
           /\ toString(req.user.doc._id) = id
           /\ users[id].exists /\ users[id].doc.isActive )
         => users'[id].doc.isActive]_vars

\* The same, for the steps of POST /api/users/:id/deactivate alone.
C28_HoldsOnDeactivateRoute ==
    [][\A id \in DOMAIN users :
         ( /\ req.route = DEACTIVATE
           /\ ~req.user.isNull
           /\ req.user.doc.role = "admin"
           /\ toString(req.user.doc._id) = id
           /\ users[id].exists /\ users[id].doc.isActive )
         => users'[id].doc.isActive]_vars

(***************************************************************************)
(* Claims about the read routes of posts (checked under ReadSpec)          *)
(***************************************************************************)
AdminRequest == ~req.user.isNull /\ req.user.doc.role = "admin"
Unpublished(id) == \E p \in posts : p.id = id /\ p.status # "published"

\* C29: a response on a read route (GET /api/posts, GET /api/posts/:id,
\* GET /api/posts/slug/:slug, GET /api/users/:id/posts) to a requester who
\* is not an authenticated admin holds published posts only, whatever
\* status the query asks for.
C29_OnlyPublishedToNonAdmins ==
    (req.pc = "done" /\ ~AdminRequest) =>
        \A id \in req.sent : ~Unpublished(id)

\* The same, for the three routes of routes/posts.js.
C29_HoldsOnPostRoutes ==
    (req.pc = "done" /\ req.route # GET_USER_POSTS /\ ~AdminRequest) =>
        \A id \in req.sent : ~Unpublished(id)

(***************************************************************************)
(* Claims about the auth middlewares and their continuation (ChainSpec)    *)
(***************************************************************************)
AuthFailures ==
    {"Access token required", "Invalid or expired token", "Authentication failed"}
Answered401 == req.status = 401 /\ req.error \in AuthFailures

\* C30: a request through authenticate ends in exactly one outcome, one 401
\* of the middleware or one call of next, never both and never two; a
\* request through optionalAuth has next called exactly once; both also when
\* the continuation throws.
C30_ExactlyOneOutcome ==
    req.pc \in {"next", "done"} =>
        /\ req.mw = "authenticate" =>
              /\ req.nextCalls <= 1
              /\ (req.nextCalls = 1) # Answered401
        /\ req.mw = "optionalAuth" => req.nextCalls = 1

\* No step but a throw of the continuation through next() breaks it.
C30_HoldsWhileNextReturns ==
    [][(C30_ExactlyOneOutcome /\ ~ContinuationThrows) => C30_ExactlyOneOutcome']_vars

====
